---- MODULE Spec2Model ----
(***************************************************************************)
(* A model of the seele-review pipeline: the patch extender                *)
(* (app/services/patch), the token budgeter (app/utils/token.py), the      *)
(* agent's get_prediction (app/services/agent/agent.py) and the comment    *)
(* publishers (app/services/publish).                                      *)
(*                                                                         *)
(* Python str values are TLA+ strings; TLC evaluates Len, \o and SubSeq on *)
(* them, so the text operations below work character by character, as the *)
(* Python code does.                                                       *)
(***************************************************************************)
EXTENDS Integers, Sequences, FiniteSets, TLC

VARIABLES
    \* ---- PatchHandler.add_line_number on one diff file ----
    p_pc,                    \* position in add_line_number
    patch_items,             \* the patch as it was put together (ghost input)
    diff,                    \* diff_file.diff: the patch text
    hunks,                   \* hunks = split_hunk(diff_file.diff)
    hunk_idx,                \* index of the next hunk of the for loop
    new_diff,                \* local new_diff
    new_lines_with_number,   \* local dict, new-file line number -> line
    old_lines_with_number,   \* local dict, old-file line number -> line
    hunk_out,                \* new_hunk_lines of every hunk processed (ghost)
    extended_diff,           \* diff_file.extended_diff
    \* ---- one run of the patch handler and AgentService.get_prediction ----
    a_pc,                    \* position in the run
    handler,                 \* which patch handler builds the diff text
    commit_message,          \* the MR/PR title given to the patch handler
    files,                   \* the diff items fetched from the forge
    query,                   \* the diff text given to get_prediction
    chunks,                  \* chunks = split_diff_by_files(query)
    chunk_idx,               \* index of the next chunk of the for loop
    chunk_results,           \* the list chunk_results
    sent,                    \* every text sent to the LLM, in order
    returned,                \* what get_prediction returned
    \* ---- publish() of a publish service ----
    pub_pc,                  \* position in publish()
    forge,                   \* which publish service runs
    pub_reviews,             \* the argument reviews
    diff_items,              \* the argument diff_items
    review_idx,              \* index of the next review of the for loop
    requests,                \* every comment request made, in order (ghost)
    skipped,                 \* indices of the reviews skipped (ghost)
    mode,                    \* publish(mode, ...): "comment" or "report"
    callback,                \* publish(..., callback): <<>> for None, else <<dict>>
    notes,                   \* general comments posted (report mode)
    notified,                \* posts made to the notification webhook
    run,                     \* how many times publish() was called on the request
    \* ---- handle_github_webhook_trigger on one request ----
    h_pc,                    \* position in the handler
    settings,                \* the settings read by the handler and the client
    http_request,            \* headers, query parameters and raw body
    fetches,                 \* the calls of _get_github_pr_diff, with their outcome
    response,                \* <<>> until the handler answers, then <<response>>
    \* ---- extract_first_yaml_from_markdown on one answer ----
    y_pc,                    \* position in extract_first_yaml_from_markdown
    markdown_text,           \* the argument: the answer of the LLM
    yaml_result,             \* <<>> for None, else <<result>>, the YamlContent
    \* ---- TokenHandler.split_by_tokens on one text ----
    t_pc,                    \* position in split_by_tokens
    t_text,                  \* the argument text
    t_limit,                 \* limit = max_tokens or self.max_tokens
    t_start,                 \* local start
    t_end,                   \* local end
    t_chunks,                \* local chunks (its first MaxWindows entries)
    t_windows,               \* <<start, end>> of every entry of chunks (ghost)
    \* ---- the LLM calls of the chunk loop of get_prediction ----
    llm_pc,                  \* position in the chunk loop
    llm_chunks,              \* len(chunks)
    llm_idx,                 \* i of "for i, chunk in enumerate(chunks)"
    llm_calls,               \* every chat-completion request made, in order (ghost)
    llm_results,             \* chunk_results: chunk_index and whether result is None
    \* ---- concurrent runs of the marker-based upsert on one MR/PR ----
    u_pc,                    \* position of every invocation in the upsert
    u_forge,                 \* "github" (_github_upsert_review_comment) or "gitlab"
    u_comments,              \* the comments (notes) of the MR/PR on the forge
    u_existing,              \* local existing of every invocation: <<>> for None
    u_body,                  \* the argument body of every invocation
    u_requests               \* every request made to the forge, in order (ghost)

patchVars == <<p_pc, patch_items, diff, hunks, hunk_idx, new_diff,
               new_lines_with_number, old_lines_with_number, hunk_out,
               extended_diff>>

agentVars == <<a_pc, handler, commit_message, files, query, chunks, chunk_idx,
               chunk_results, sent, returned>>

pubVars == <<pub_pc, forge, pub_reviews, diff_items, review_idx, requests, skipped,
             mode, callback, notes, notified, run>>

hookVars == <<h_pc, settings, http_request, fetches, response>>

yamlVars == <<y_pc, markdown_text, yaml_result>>

splitVars == <<t_pc, t_text, t_limit, t_start, t_end, t_chunks, t_windows>>

llmVars == <<llm_pc, llm_chunks, llm_idx, llm_calls, llm_results>>

upsertVars == <<u_pc, u_forge, u_comments, u_existing, u_body, u_requests>>

vars == <<patchVars, agentVars, pubVars, hookVars, yamlVars, splitVars, llmVars, upsertVars>>

-----------------------------------------------------------------------------
(* Bounds of the model *)

MaxPatchLines == 4

\* how many invocations of the upsert run concurrently on one MR/PR
MaxTasks == 2

\* how many chunks the chunk loop of get_prediction goes through
MaxChunks == 3

\* how many tokens a text given to split_by_tokens has
MaxSplitLen == 16

\* how far above chunk_overlap the limit given to split_by_tokens goes
MaxLimitAbove == 4

\* how many windows of split_by_tokens are kept
MaxWindows == 16

\* the longest list of diff items a run is given
MaxFiles == 3

\* the most reviews one LLM answer holds
MaxReviews == 2

\* TokenHandler(max_tokens=6000, chunk_overlap=200), scaled down to texts of
\* a few lines
MaxTokens == 100

ChunkOverlap == 10

-----------------------------------------------------------------------------
(* Python str / list helpers *)

StartsWith(s, p) == Len(s) >= Len(p) /\ SubSeq(s, 1, Len(p)) = p

CharAt(s, i) == SubSeq(s, i, i)

Max(a, b) == IF a >= b THEN a ELSE b

Min(a, b) == IF a <= b THEN a ELSE b

\* index of the first occurrence of the one-character string c in s at or
\* after position i, 0 when there is none
RECURSIVE FindChar(_, _, _)
FindChar(s, c, i) ==
    IF i > Len(s) THEN 0
    ELSE IF CharAt(s, i) = c THEN i
    ELSE FindChar(s, c, i + 1)

\* s.split('\n')
RECURSIVE SplitLines(_)
SplitLines(s) ==
    LET k == FindChar(s, "\n", 1)
    IN  IF k = 0 THEN <<s>>
        ELSE <<SubSeq(s, 1, k - 1)>> \o SplitLines(SubSeq(s, k + 1, Len(s)))

\* sep.join(parts)
RECURSIVE Join(_, _)
Join(parts, sep) ==
    IF Len(parts) = 0 THEN ""
    ELSE IF Len(parts) = 1 THEN parts[1]
    ELSE parts[1] \o sep \o Join(Tail(parts), sep)

Digit(d) == SubSeq("0123456789", d + 1, d + 1)

IsDigit(c) == c \in {"0", "1", "2", "3", "4", "5", "6", "7", "8", "9"}

DigitValue(c) ==
    CASE c = "0" -> 0 [] c = "1" -> 1 [] c = "2" -> 2 [] c = "3" -> 3
      [] c = "4" -> 4 [] c = "5" -> 5 [] c = "6" -> 6 [] c = "7" -> 7
      [] c = "8" -> 8 [] c = "9" -> 9

\* str(n) for n >= 0, as the f-strings format a line number
RECURSIVE IntToStr(_)
IntToStr(n) ==
    IF n < 10 THEN Digit(n) ELSE IntToStr(n \div 10) \o Digit(n % 10)

\* int(s) for a string of digits
RECURSIVE StrToInt(_)
StrToInt(s) ==
    IF Len(s) = 0 THEN 0
    ELSE 10 * StrToInt(SubSeq(s, 1, Len(s) - 1)) + DigitValue(CharAt(s, Len(s)))

RECURSIVE Spaces(_)
Spaces(k) == IF k <= 0 THEN "" ELSE " " \o Spaces(k - 1)

\* s.ljust(width)
ljust(s, width) == s \o Spaces(width - Len(s))

\* the position after the run of digits that starts at i (i itself when
\* s has no digit there): what a greedy \d* consumes
RECURSIVE DigitsEnd(_, _)
DigitsEnd(s, i) ==
    IF i <= Len(s) /\ IsDigit(CharAt(s, i)) THEN DigitsEnd(s, i + 1) ELSE i

\* a dict is a function whose domain is its set of keys
EmptyDict == [k \in {} |-> ""]

DictSet(d, key, value) ==
    [k \in (DOMAIN d) \cup {key} |-> IF k = key THEN value ELSE d[k]]

\* d.update(e)
DictUpdate(d, e) ==
    [k \in (DOMAIN d) \cup (DOMAIN e) |-> IF k \in DOMAIN e THEN e[k] ELSE d[k]]

-----------------------------------------------------------------------------
(* app/services/patch/utils.py *)

\* re.match(r'@@ -(\d+),?(\d+)? \+(\d+),?(\d+)? @@', line): whether it
\* matches, and group(1) and group(3) as integers
HeaderMatch(line) ==
    LET e1 == DigitsEnd(line, 5)
        c1 == IF CharAt(line, e1) = "," THEN e1 + 1 ELSE e1
        e2 == DigitsEnd(line, c1)
        s3 == e2 + 2
        e3 == DigitsEnd(line, s3)
        c3 == IF CharAt(line, e3) = "," THEN e3 + 1 ELSE e3
        e4 == DigitsEnd(line, c3)
        ok == /\ StartsWith(line, "@@ -")
              /\ e1 > 5
              /\ SubSeq(line, e2, e2 + 1) = " +"
              /\ e3 > s3
              /\ SubSeq(line, e4, e4 + 2) = " @@"
    IN  IF ok
        THEN [match |-> TRUE,
              old_start |-> StrToInt(SubSeq(line, 5, e1 - 1)),
              new_start |-> StrToInt(SubSeq(line, s3, e3 - 1))]
        ELSE [match |-> FALSE, old_start |-> 0, new_start |-> 0]

Hunk(o, n, ls) == [old_start |-> o, new_start |-> n, hunk_lines |-> ls]

\* one iteration of split_hunk's loop over the lines; st holds the list
\* hunks and current_hunk
SplitHunkStep(st, line) ==
    LET isHeader == StartsWith(line, "@@")
        m        == HeaderMatch(line)
        flush    == isHeader /\ Len(st.current_hunk.hunk_lines) > 0
        hs       == IF flush THEN Append(st.hunks, st.current_hunk) ELSE st.hunks
        cur0     == IF flush THEN Hunk(0, 0, <<>>) ELSE st.current_hunk
        cur1     == IF isHeader /\ m.match
                    THEN Hunk(m.old_start, m.new_start, cur0.hunk_lines)
                    ELSE cur0
    IN  [hunks |-> hs,
         current_hunk |-> Hunk(cur1.old_start, cur1.new_start,
                               Append(cur1.hunk_lines, line))]

RECURSIVE SplitHunkLoop(_, _)
SplitHunkLoop(st, lines) ==
    IF Len(lines) = 0 THEN st
    ELSE SplitHunkLoop(SplitHunkStep(st, Head(lines)), Tail(lines))

\* split_hunk(diff)
split_hunk(d) ==
    LET st == SplitHunkLoop([hunks |-> <<>>, current_hunk |-> Hunk(0, 0, <<>>)],
                            SplitLines(d))
    IN  IF Len(st.current_hunk.hunk_lines) > 0
        THEN Append(st.hunks, st.current_hunk)
        ELSE st.hunks

\* the head of a deleted, an added and a context line
HeadOld(o) == "(" \o IntToStr(o) \o ", )"

HeadNew(n) == "( , " \o IntToStr(n) \o ")"

HeadBoth(o, n) == "(" \o IntToStr(o) \o ", " \o IntToStr(n) \o ")"

\* a faulty loop body: line numbers accumulated by index, every line
\* advancing both counters
HunkLineStepByIndex(st, line) ==
    IF StartsWith(line, "-")
    THEN [st EXCEPT !.temp = Append(@, <<HeadOld(st.old_line_number), line>>),
                    !.old_lines = DictSet(@, st.old_line_number, line),
                    !.old_line_number = @ + 1,
                    !.new_line_number = @ + 1,
                    !.max_head_length = Max(@, Len(HeadOld(st.old_line_number)))]
    ELSE IF StartsWith(line, "+")
    THEN [st EXCEPT !.temp = Append(@, <<HeadNew(st.new_line_number), line>>),
                    !.new_lines = DictSet(@, st.new_line_number, line),
                    !.old_line_number = @ + 1,
                    !.new_line_number = @ + 1,
                    !.max_head_length = Max(@, Len(HeadNew(st.new_line_number)))]
    ELSE [st EXCEPT !.temp = Append(@, <<HeadBoth(st.old_line_number,
                                                  st.new_line_number), line>>),
                    !.old_lines = DictSet(@, st.old_line_number, line),
                    !.new_lines = DictSet(@, st.new_line_number, line),
                    !.old_line_number = @ + 1,
                    !.new_line_number = @ + 1,
                    !.max_head_length = Max(@, Len(HeadBoth(st.old_line_number,
                                                            st.new_line_number)))]

\* one iteration of computed_hunk_line_number's loop over hunk_lines[1:]
HunkLineStep(st, line) ==
    IF StartsWith(line, "-")
    THEN [st EXCEPT !.temp = Append(@, <<HeadOld(st.old_line_number), line>>),
                    !.old_lines = DictSet(@, st.old_line_number, line),
                    !.old_line_number = @ + 1,
                    !.max_head_length = Max(@, Len(HeadOld(st.old_line_number)))]
    ELSE IF StartsWith(line, "+")
    THEN [st EXCEPT !.temp = Append(@, <<HeadNew(st.new_line_number), line>>),
                    !.new_lines = DictSet(@, st.new_line_number, line),
                    !.new_line_number = @ + 1,
                    !.max_head_length = Max(@, Len(HeadNew(st.new_line_number)))]
    ELSE [st EXCEPT !.temp = Append(@, <<HeadBoth(st.old_line_number,
                                                  st.new_line_number), line>>),
                    !.old_lines = DictSet(@, st.old_line_number, line),
                    !.new_lines = DictSet(@, st.new_line_number, line),
                    !.old_line_number = @ + 1,
                    !.new_line_number = @ + 1,
                    !.max_head_length = Max(@, Len(HeadBoth(st.old_line_number,
                                                            st.new_line_number)))]

RECURSIVE HunkLineLoop(_, _)
HunkLineLoop(st, lines) ==
    IF Len(lines) = 0 THEN st
    ELSE HunkLineLoop(HunkLineStep(st, Head(lines)), Tail(lines))

\* computed_hunk_line_number(hunk): (new_hunk_lines, new_lines, old_lines)
computed_hunk_line_number(hunk) ==
    LET st == HunkLineLoop([temp |-> <<>>,
                            old_lines |-> EmptyDict,
                            new_lines |-> EmptyDict,
                            old_line_number |-> hunk.old_start,
                            new_line_number |-> hunk.new_start,
                            max_head_length |-> 0],
                           Tail(hunk.hunk_lines))
    IN  [new_hunk_lines |->
             <<hunk.hunk_lines[1]>> \o
             [i \in 1..Len(st.temp) |->
                 ljust(st.temp[i][1], st.max_head_length) \o " " \o st.temp[i][2]],
         new_lines |-> st.new_lines,
         old_lines |-> st.old_lines]

-----------------------------------------------------------------------------
(* The patches add_line_number is run on *)

\* a '@@' header line as the forge writes it for old_start o and new_start n
HeaderLine(o, n, withCount, tail) ==
    "@@ -" \o IntToStr(o) \o (IF withCount THEN ",2" ELSE "")
    \o " +" \o IntToStr(n) \o ",3 @@" \o tail

HeaderItem(o, n, withCount, tail) ==
    [hdr |-> TRUE, o |-> o, n |-> n, text |-> HeaderLine(o, n, withCount, tail)]

BodyItem(text) == [hdr |-> FALSE, o |-> 0, n |-> 0, text |-> text]

\* the header of the one hunk of an added file
NewFileHeader ==
    [hdr |-> TRUE, o |-> 0, n |-> 1, text |-> "@@ -0,0 +1,3 @@"]

HeaderItems ==
    {HeaderItem(1, 1, TRUE, ""), HeaderItem(9, 98, FALSE, " fn"), NewFileHeader}

BodyItems == {BodyItem("-a"), BodyItem("+b"), BodyItem(" c"), BodyItem("")}

\* a patch starts with a hunk header, and every hunk has a line; the hunk
\* of an added file has added lines only (the last item "" is the end of a
\* text that ends in a newline)
PatchInputs ==
    {s \in UNION {[1..k -> HeaderItems \cup BodyItems] : k \in 2..MaxPatchLines} :
        /\ s[1].hdr
        /\ ~s[Len(s)].hdr
        /\ \A i \in 1..(Len(s) - 1) : ~(s[i].hdr /\ s[i + 1].hdr)
        /\ \A i \in 1..Len(s) :
               s[i] = NewFileHeader =>
                   /\ i = 1
                   /\ \A j \in 2..Len(s) :
                          \/ s[j].text = "+b"
                          \/ j = Len(s) /\ s[j].text = ""}

PatchText(items) == Join([i \in 1..Len(items) |-> items[i].text], "\n")

-----------------------------------------------------------------------------
(* app/services/patch/gitlab.py: PatchHandler.add_line_number, for one     *)
(* diff file                                                               *)

PatchIdle ==
    /\ patch_items = <<>>
    /\ diff = ""
    /\ p_pc = "idle"
    /\ hunks = <<>>
    /\ hunk_idx = 1
    /\ new_diff = ""
    /\ new_lines_with_number = EmptyDict
    /\ old_lines_with_number = EmptyDict
    /\ hunk_out = <<>>
    /\ extended_diff = ""

AgentIdle ==
    /\ a_pc = "idle"
    /\ handler = "gitlab"
    /\ commit_message = ""
    /\ files = <<>>
    /\ query = ""
    /\ chunks = <<>>
    /\ chunk_idx = 1
    /\ chunk_results = <<>>
    /\ sent = <<>>
    /\ returned = <<>>

SplitIdle ==
    /\ t_pc = "idle"
    /\ t_text = ""
    /\ t_limit = 0
    /\ t_start = 0
    /\ t_end = 0
    /\ t_chunks = <<>>
    /\ t_windows = <<>>

LlmIdle ==
    /\ llm_pc = "idle"
    /\ llm_chunks = 0
    /\ llm_idx = 0
    /\ llm_calls = <<>>
    /\ llm_results = <<>>

UpsertIdle ==
    /\ u_pc = <<>>
    /\ u_forge = ""
    /\ u_comments = <<>>
    /\ u_existing = <<>>
    /\ u_body = <<>>
    /\ u_requests = <<>>

YamlIdle ==
    /\ y_pc = "idle"
    /\ markdown_text = ""
    /\ yaml_result = <<>>

HookIdle ==
    /\ h_pc = "idle"
    /\ settings = <<>>
    /\ http_request = <<>>
    /\ fetches = <<>>
    /\ response = <<>>

PubIdle ==
    /\ pub_pc = "idle"
    /\ mode = "comment"
    /\ callback = <<>>
    /\ forge = "github"
    /\ pub_reviews = <<>>
    /\ diff_items = <<>>
    /\ review_idx = 1
    /\ requests = <<>>
    /\ skipped = {}
    /\ notes = <<>>
    /\ notified = <<>>
    /\ run = 1

InitPatch ==
    /\ UpsertIdle
    /\ LlmIdle
    /\ SplitIdle
    /\ YamlIdle
    /\ HookIdle
    /\ AgentIdle
    /\ PubIdle
    /\ patch_items \in PatchInputs
    /\ diff = PatchText(patch_items)
    /\ p_pc = "start"
    /\ hunks = <<>>
    /\ hunk_idx = 1
    /\ new_diff = ""
    /\ new_lines_with_number = EmptyDict
    /\ old_lines_with_number = EmptyDict
    /\ hunk_out = <<>>
    /\ extended_diff = ""

\* new_diff = "", the two dicts = {}, hunks = split_hunk(diff_file.diff)
AddLineNumberSplit ==
    /\ p_pc = "start"
    /\ hunks' = split_hunk(diff)
    /\ hunk_idx' = 1
    /\ new_diff' = ""
    /\ new_lines_with_number' = EmptyDict
    /\ old_lines_with_number' = EmptyDict
    /\ p_pc' = "hunks"
    /\ UNCHANGED <<patch_items, diff, hunk_out, extended_diff>>
    /\ UNCHANGED <<agentVars, pubVars, hookVars, yamlVars, splitVars, llmVars, upsertVars>>

\* one iteration of `for hunk in hunks`
AddLineNumberHunk ==
    /\ p_pc = "hunks"
    /\ hunk_idx <= Len(hunks)
    /\ LET r == computed_hunk_line_number(hunks[hunk_idx])
       IN  /\ new_diff' = new_diff \o Join(r.new_hunk_lines, "\n")
           /\ new_lines_with_number' = DictUpdate(new_lines_with_number, r.new_lines)
           /\ old_lines_with_number' = DictUpdate(old_lines_with_number, r.old_lines)
           /\ hunk_out' = Append(hunk_out, r.new_hunk_lines)
    /\ hunk_idx' = hunk_idx + 1
    /\ UNCHANGED <<p_pc, patch_items, diff, hunks, extended_diff>>
    /\ UNCHANGED <<agentVars, pubVars, hookVars, yamlVars, splitVars, llmVars, upsertVars>>

\* after the loop: diff_file.extended_diff = new_diff (the two dicts are
\* assigned to the diff file as they stand)
AddLineNumberStore ==
    /\ p_pc = "hunks"
    /\ hunk_idx > Len(hunks)
    /\ extended_diff' = new_diff
    /\ p_pc' = "done"
    /\ UNCHANGED <<patch_items, diff, hunks, hunk_idx, new_diff,
                   new_lines_with_number, old_lines_with_number, hunk_out>>
    /\ UNCHANGED <<agentVars, pubVars, hookVars, yamlVars, splitVars, llmVars, upsertVars>>

NextPatch ==
    \/ AddLineNumberSplit
    \/ AddLineNumberHunk
    \/ AddLineNumberStore

SpecPatch == InitPatch /\ [][NextPatch]_vars

-----------------------------------------------------------------------------
(* More Python str helpers *)

IsSpace(c) == c \in {" ", "\n", "\t", "\r"}

RECURSIVE LStrip(_)
LStrip(s) ==
    IF Len(s) > 0 /\ IsSpace(CharAt(s, 1)) THEN LStrip(SubSeq(s, 2, Len(s))) ELSE s

RECURSIVE RStrip(_)
RStrip(s) ==
    IF Len(s) > 0 /\ IsSpace(CharAt(s, Len(s)))
    THEN RStrip(SubSeq(s, 1, Len(s) - 1))
    ELSE s

\* s.strip()
Strip(s) == LStrip(RStrip(s))

\* sub in s
Contains(s, sub) ==
    \E i \in 0..(Len(s) - Len(sub)) : SubSeq(s, i + 1, i + Len(sub)) = sub

-----------------------------------------------------------------------------
(* The diff items of a run *)

DiffItem(new_path, old_path, d, renamed) ==
    [new_path |-> new_path, old_path |-> old_path, diff |-> d,
     new_file |-> FALSE, renamed_file |-> renamed, deleted_file |-> FALSE,
     too_large |-> FALSE, collapsed |-> FALSE, generated_file |-> FALSE]

FileA == DiffItem("a.py", "a.py", "@@ -1 +1 @@\n-a", FALSE)

FileB == DiffItem("b.py", "o.py", "@@ -1,2 +1,3 @@\n c\n+b", TRUE)

\* a file whose section alone is longer than MaxTokens
FileC == DiffItem("c.py", "c.py",
                  "@@ -9,6 +9,6 @@\n-a\n-a\n-a\n+b\n+b\n+b\n c\n c", FALSE)

FileSet == {FileA, FileB, FileC}

FileLists == UNION {[1..k -> FileSet] : k \in 1..MaxFiles}

-----------------------------------------------------------------------------
(* app/services/patch/gitlab.py: PatchHandler *)

\* add_line_number's value of diff_file.extended_diff for a diff text
RECURSIVE AddLineNumberLoop(_, _)
AddLineNumberLoop(acc, hs) ==
    IF Len(hs) = 0 THEN acc
    ELSE AddLineNumberLoop(
             acc \o Join(computed_hunk_line_number(Head(hs)).new_hunk_lines, "\n"),
             Tail(hs))

add_line_number(d) == AddLineNumberLoop("", split_hunk(d))

\* PatchHandler.__init__: the diff files that have a diff
ExtendedDiffFiles(fs) == SelectSeq(fs, LAMBDA f : f.diff # "")

RECURSIVE GitlabSections(_)
GitlabSections(fs) ==
    IF Len(fs) = 0 THEN ""
    ELSE "## new_path: " \o Head(fs).new_path \o "\n"
         \o "## old_path: " \o Head(fs).old_path \o "\n"
         \o add_line_number(Head(fs).diff) \o "\n\n"
         \o GitlabSections(Tail(fs))

\* PatchHandler.get_extended_diff_content(commit_message)
GitlabExtendedDiffContent(fs, msg) ==
    "commit message: " \o msg \o "\n\n" \o GitlabSections(ExtendedDiffFiles(fs))

-----------------------------------------------------------------------------
(* app/services/patch/github.py: GithubPatchHandler *)

\* the lines get_extended_diff_content appends for one diff item
GithubItemLines(item) ==
    IF item.deleted_file \/ item.diff = "" THEN <<>>
    ELSE IF item.too_large \/ item.collapsed THEN <<>>
    ELSE (IF item.new_file
          THEN <<"--- /dev/null", "+++ b/" \o item.new_path>>
          ELSE <<"--- a/" \o item.old_path, "+++ b/" \o item.new_path>>)
         \o <<item.diff, "">>

RECURSIVE GithubDiffLines(_)
GithubDiffLines(fs) ==
    IF Len(fs) = 0 THEN <<>>
    ELSE GithubItemLines(Head(fs)) \o GithubDiffLines(Tail(fs))

\* GithubPatchHandler.get_extended_diff_content(commit_message)
GithubExtendedDiffContent(fs, msg) ==
    Join((IF msg # "" THEN <<"Commit Message: " \o msg, "">> ELSE <<>>)
         \o GithubDiffLines(fs), "\n")

\* app/constants.py
CODE_EXTENSIONS ==
    {".py", ".js", ".jsx", ".ts", ".tsx", ".json", ".html", ".css", ".scss",
     ".go", ".rs", ".java", ".kt", ".c", ".h", ".cpp", ".hpp", ".yml",
     ".yaml", ".toml", ".sh", ".sql"}

EXCLUDE_EXTENSIONS ==
    {".png", ".jpg", ".jpeg", ".gif", ".bmp", ".svg", ".ico",
     ".pdf", ".zip", ".tar", ".gz", ".rar", ".7z",
     ".exe", ".dll", ".so", ".dylib", ".bin",
     ".mp4", ".avi", ".mov", ".mp3", ".wav",
     ".ttf", ".woff", ".woff2", ".eot"}

\* index of the last '.' of a path, 0 when it has none
LastDot(path) ==
    LET dots == {i \in 1..Len(path) : SubSeq(path, i, i) = "."}
    IN  IF dots = {} THEN 0 ELSE CHOOSE i \in dots : \A j \in dots : j <= i

\* str.lower() on ASCII text
UpperToLower(c) ==
    LET upper == "ABCDEFGHIJKLMNOPQRSTUVWXYZ"
        lower == "abcdefghijklmnopqrstuvwxyz"
        k == FindChar(upper, c, 1)
    IN  IF k = 0 THEN c ELSE CharAt(lower, k)

RECURSIVE LowerCase(_)
LowerCase(s) ==
    IF s = "" THEN ""
    ELSE UpperToLower(CharAt(s, 1)) \o LowerCase(SubSeq(s, 2, Len(s)))

\* file_ext of filter_code_files: <<>> for None
FileExt(new_path) ==
    IF LastDot(new_path) = 0 THEN <<>>
    ELSE <<"." \o LowerCase(SubSeq(new_path, LastDot(new_path) + 1, Len(new_path)))>>

\* filter_code_files: whether the loop keeps the item
IsCodeFile(item) ==
    LET file_ext == FileExt(item.new_path)
    IN  /\ ~item.deleted_file
        /\ ~(file_ext # <<>> /\ file_ext[1] \in EXCLUDE_EXTENSIONS)
        /\ ~(item.too_large \/ item.collapsed)
        /\ ~item.generated_file
        /\ \/ (file_ext # <<>> /\ file_ext[1] \in CODE_EXTENSIONS)
           \/ item.diff # ""

\* GithubPatchHandler.filter_code_files
filter_code_files(fs) == SelectSeq(fs, IsCodeFile)

\* GithubPatchHandler.has_code_changes
has_code_changes(fs) == Len(filter_code_files(fs)) > 0

\* an image with a text patch, and a removed file
FileD == DiffItem("d.svg", "d.svg", "@@ -1 +1 @@\n+s", FALSE)

FileE ==
    [DiffItem("e.PY", "e.PY", "@@ -1 +0,0 @@\n-e", FALSE)
         EXCEPT !.deleted_file = TRUE]

\* a file that was renamed and not changed: GitHub lists it without a patch
FileR == DiffItem("r.py", "q.py", "", TRUE)

-----------------------------------------------------------------------------
(* app/utils/token.py: TokenHandler *)

\* self.encoding.encode(text). The tiktoken encoder is taken with no merges:
\* one token per character.
encode(text) == [i \in 1..Len(text) |-> CharAt(text, i)]

\* the concatenation of tokens[lo..hi]
RECURSIVE ConcatRange(_, _, _)
ConcatRange(tokens, lo, hi) ==
    IF lo > hi THEN ""
    ELSE IF lo = hi THEN tokens[lo]
    ELSE ConcatRange(tokens, lo, (lo + hi) \div 2)
         \o ConcatRange(tokens, (lo + hi) \div 2 + 1, hi)

\* self.encoding.decode(tokens)
decode(tokens) == ConcatRange(tokens, 1, Len(tokens))

count_tokens(text) == Len(encode(text))

is_within_limit(text) == count_tokens(text) <= MaxTokens

\* split_by_tokens: the windows from token index start (0-based) on
RECURSIVE SplitByTokensLoop(_, _, _)
SplitByTokensLoop(tokens, limit, start) ==
    IF ~(start < Len(tokens)) THEN <<>>
    ELSE LET end == Min(start + limit, Len(tokens))
             chunk_text == decode(SubSeq(tokens, start + 1, end))
         IN  IF end < Len(tokens)
             THEN <<chunk_text>> \o SplitByTokensLoop(tokens, limit, end - ChunkOverlap)
             ELSE <<chunk_text>>

split_by_tokens(text, limit) ==
    IF Len(encode(text)) <= limit THEN <<text>>
    ELSE SplitByTokensLoop(encode(text), limit, 0)

\* ---- split_by_tokens, statement by statement

\* a text of n tokens, no two alike
SplitText(n) == SubSeq("abcdefghijklmnopqrstuvwxyz", 1, n)

SplitTexts == {SplitText(n) : n \in 1..MaxSplitLen}

\* the limits: chunk_overlap itself and the next few
SplitLimits == ChunkOverlap..(ChunkOverlap + MaxLimitAbove)

InitSplit ==
    /\ UpsertIdle
    /\ LlmIdle
    /\ PatchIdle
    /\ AgentIdle
    /\ PubIdle
    /\ HookIdle
    /\ YamlIdle
    /\ t_pc = "start"
    /\ t_text \in SplitTexts
    /\ t_limit \in SplitLimits
    /\ t_start = 0
    /\ t_end = 0
    /\ t_chunks = <<>>
    /\ t_windows = <<>>

\* a faulty restart: the next window starts where the previous one ended
NextStartAtEnd(end) == end

\* "start = end - self.chunk_overlap"
NextStart(end) == end - ChunkOverlap

\* "if len(tokens) <= limit: return [text]", else chunks = [], start = 0
SplitBegin ==
    /\ t_pc = "start"
    /\ IF Len(encode(t_text)) <= t_limit
       THEN /\ t_pc' = "done"
            /\ t_chunks' = <<t_text>>
            /\ t_windows' = <<<<0, Len(encode(t_text))>>>>
       ELSE /\ t_pc' = "loop"
            /\ t_chunks' = <<>>
            /\ t_windows' = <<>>
    /\ t_start' = 0
    /\ UNCHANGED <<t_text, t_limit, t_end>>
    /\ UNCHANGED <<patchVars, agentVars, pubVars, hookVars, yamlVars, llmVars, upsertVars>>

\* "while start < len(tokens)": the window tokens[start:end] is decoded and
\* appended
TakeWindow ==
    /\ t_pc = "loop"
    /\ IF t_start < Len(encode(t_text))
       THEN LET end == Min(t_start + t_limit, Len(encode(t_text)))
                chunk_text == decode(SubSeq(encode(t_text), t_start + 1, end))
            IN  /\ t_end' = end
                /\ t_pc' = "advance"
                /\ IF Len(t_chunks) < MaxWindows
                   THEN /\ t_chunks' = Append(t_chunks, chunk_text)
                        /\ t_windows' = Append(t_windows, <<t_start, end>>)
                   ELSE UNCHANGED <<t_chunks, t_windows>>
       ELSE /\ t_pc' = "done"
            /\ UNCHANGED <<t_end, t_chunks, t_windows>>
    /\ UNCHANGED <<t_text, t_limit, t_start>>
    /\ UNCHANGED <<patchVars, agentVars, pubVars, hookVars, yamlVars, llmVars, upsertVars>>

\* "if end < len(tokens): start = end - self.chunk_overlap, else: break"
Advance ==
    /\ t_pc = "advance"
    /\ IF t_end < Len(encode(t_text))
       THEN /\ t_start' = NextStart(t_end)
            /\ t_pc' = "loop"
       ELSE /\ t_start' = t_start
            /\ t_pc' = "done"
    /\ UNCHANGED <<t_text, t_limit, t_end, t_chunks, t_windows>>
    /\ UNCHANGED <<patchVars, agentVars, pubVars, hookVars, yamlVars, llmVars, upsertVars>>

NextSplit ==
    \/ SplitBegin
    \/ TakeWindow
    \/ Advance

SpecSplit == InitSplit /\ [][NextSplit]_vars

\* the loop is straight-line code: it keeps running while it can
SpecSplitFair == SpecSplit /\ WF_vars(NextSplit)

IsFileMarker(line) ==
    StartsWith(line, "## new_path:") \/ StartsWith(line, "## old_path:")

\* split_diff_by_files: the number of lines before the first file marker
RECURSIVE HeaderLineCount(_, _)
HeaderLineCount(lines, i) ==
    IF i > Len(lines) \/ IsFileMarker(lines[i]) THEN i - 1
    ELSE HeaderLineCount(lines, i + 1)

\* split_diff_by_files: one iteration of the loop "Process file diffs"
FileLoopStep(st, lines, i) ==
    IF StartsWith(lines[i], "## new_path:")
    THEN [files |-> IF Len(st.current_file_lines) > 0
                    THEN Append(st.files, Join(st.current_file_lines, "\n"))
                    ELSE st.files,
          current_file_lines |-> <<lines[i]>>,
          in_file |-> TRUE]
    ELSE IF st.in_file
    THEN IF i + 1 <= Len(lines) /\ StartsWith(lines[i + 1], "## new_path:")
         THEN [files |-> Append(st.files,
                                Join(Append(st.current_file_lines, lines[i]), "\n")),
               current_file_lines |-> <<>>,
               in_file |-> FALSE]
         ELSE [st EXCEPT !.current_file_lines = Append(@, lines[i])]
    ELSE st

RECURSIVE FileLoop(_, _, _)
FileLoop(st, lines, i) ==
    IF i > Len(lines) THEN st
    ELSE FileLoop(FileLoopStep(st, lines, i), lines, i + 1)

\* split_diff_by_files: the list files
DiffFiles(lines) ==
    LET st == FileLoop([files |-> <<>>, current_file_lines |-> <<>>,
                        in_file |-> FALSE],
                       lines, HeaderLineCount(lines, 1) + 1)
    IN  IF Len(st.current_file_lines) > 0
        THEN Append(st.files, Join(st.current_file_lines, "\n"))
        ELSE st.files

\* split_diff_by_files: header
DiffHeader(lines) ==
    Strip(Join(SubSeq(lines, 1, HeaderLineCount(lines, 1)), "\n"))

\* a faulty packing: the file that opens a new chunk is left out of it
PackStepLosing(st, file_diff, limit) ==
    LET file_tokens == count_tokens(file_diff)
        flushed == IF Len(st.current_chunk) > 0
                   THEN Append(st.chunks, Join(st.current_chunk, "\n\n"))
                   ELSE st.chunks
    IN  IF file_tokens > limit
        THEN [chunks |-> flushed \o split_by_tokens(file_diff, limit),
              current_chunk |-> IF Len(st.current_chunk) > 0 THEN <<>>
                                ELSE st.current_chunk,
              current_tokens |-> IF Len(st.current_chunk) > 0 THEN 0
                                 ELSE st.current_tokens]
        ELSE IF st.current_tokens + file_tokens + 2 <= limit
        THEN [chunks |-> st.chunks,
              current_chunk |-> Append(st.current_chunk, file_diff),
              current_tokens |-> st.current_tokens + file_tokens + 2]
        ELSE [chunks |-> flushed,
              current_chunk |-> <<>>,
              current_tokens |-> file_tokens]

\* split_diff_by_files: one iteration of "for file_diff in files"
PackStep(st, file_diff, limit) ==
    LET file_tokens == count_tokens(file_diff)
        flushed == IF Len(st.current_chunk) > 0
                   THEN Append(st.chunks, Join(st.current_chunk, "\n\n"))
                   ELSE st.chunks
    IN  IF file_tokens > limit
        THEN [chunks |-> flushed \o split_by_tokens(file_diff, limit),
              current_chunk |-> IF Len(st.current_chunk) > 0 THEN <<>>
                                ELSE st.current_chunk,
              current_tokens |-> IF Len(st.current_chunk) > 0 THEN 0
                                 ELSE st.current_tokens]
        ELSE IF st.current_tokens + file_tokens + 2 <= limit
        THEN [chunks |-> st.chunks,
              current_chunk |-> Append(st.current_chunk, file_diff),
              current_tokens |-> st.current_tokens + file_tokens + 2]
        ELSE [chunks |-> flushed,
              current_chunk |-> <<file_diff>>,
              current_tokens |-> file_tokens]

RECURSIVE PackLoop(_, _, _)
PackLoop(st, fs, limit) ==
    IF Len(fs) = 0 THEN st
    ELSE PackLoop(PackStep(st, Head(fs), limit), Tail(fs), limit)

\* split_diff_by_files(diff_content), with limit = self.max_tokens
split_diff_by_files(diff_content) ==
    LET lines  == SplitLines(diff_content)
        header == DiffHeader(lines)
        st0    == IF header # ""
                  THEN [chunks |-> <<>>, current_chunk |-> <<header>>,
                        current_tokens |-> count_tokens(header)]
                  ELSE [chunks |-> <<>>, current_chunk |-> <<>>,
                        current_tokens |-> 0]
        st     == PackLoop(st0, DiffFiles(lines), MaxTokens)
    IN  IF Len(st.current_chunk) > 0
        THEN Append(st.chunks, Join(st.current_chunk, "\n\n"))
        ELSE st.chunks

-----------------------------------------------------------------------------
(* app/utils/token.py: TokenHandler.merge_reviews *)

\* a Review as model_dump() gives it
ReviewDict(new_path, old_path, type, start_line, end_line, header, content) ==
    [new_path |-> new_path, old_path |-> old_path, type |-> type,
     start_line |-> start_line, end_line |-> end_line,
     issue_header |-> header, issue_content |-> content]

\* "all_reviews": the reviews of the chunk results that have a result
RECURSIVE AllReviews(_)
AllReviews(results) ==
    IF Len(results) = 0 THEN <<>>
    ELSE (IF Head(results).failed THEN <<>> ELSE Head(results).reviews)
         \o AllReviews(Tail(results))

\* a faulty key: the review type left out
ReviewKeyNoType(review) ==
    LET start_line == IF review.start_line # 0 THEN review.start_line ELSE 0
        end_line   == IF review.end_line # 0 THEN review.end_line ELSE start_line
    IN  <<review.new_path, start_line, end_line, "new">>

\* key = (new_path, start_line, end_line, review_type); the dicts hold the
\* snake_case names only, and `or` passes over an empty or zero value
ReviewKey(review) ==
    LET new_path   == IF review.new_path # "" THEN review.new_path ELSE ""
        start_line == IF review.start_line # 0 THEN review.start_line ELSE 0
        end_line   == IF review.end_line # 0 THEN review.end_line ELSE start_line
    IN  <<new_path, start_line, end_line, review.type>>

\* a faulty merge: the later text is appended without the substring test
MergedContentAlways(existing_content, new_content) ==
    IF new_content # ""
    THEN Strip(existing_content \o "\n---\n" \o new_content)
    ELSE existing_content

\* the issue content of the kept review after a later review of the same
\* key was seen
MergedContent(existing_content, new_content) ==
    IF new_content # "" /\ ~Contains(existing_content, new_content)
    THEN Strip(existing_content \o "\n---\n" \o new_content)
    ELSE existing_content

\* position of key in unique_reviews (a dict in insertion order, held as a
\* sequence of entries), 0 when it is not a key
KeyIndex(unique_reviews, key) ==
    IF \E i \in 1..Len(unique_reviews) : unique_reviews[i].key = key
    THEN CHOOSE i \in 1..Len(unique_reviews) : unique_reviews[i].key = key
    ELSE 0

\* one iteration of "for review in all_reviews"
MergeStep(unique_reviews, review) ==
    LET key == ReviewKey(review)
        at  == KeyIndex(unique_reviews, key)
    IN  IF at = 0
        THEN Append(unique_reviews, [key |-> key, review |-> review])
        ELSE [unique_reviews EXCEPT
                 ![at].review.issue_content =
                     MergedContent(@, review.issue_content)]

RECURSIVE MergeLoop(_, _)
MergeLoop(unique_reviews, reviews) ==
    IF Len(reviews) = 0 THEN unique_reviews
    ELSE MergeLoop(MergeStep(unique_reviews, Head(reviews)), Tail(reviews))

\* merge_reviews(chunk_results): list(unique_reviews.values())
merge_reviews(results) ==
    LET unique_reviews == MergeLoop(<<>>, AllReviews(results))
    IN  [i \in 1..Len(unique_reviews) |-> unique_reviews[i].review]

-----------------------------------------------------------------------------
(* The answers of the LLM *)

ReviewSet ==
    {ReviewDict("a.py", "a.py", "new", 1, 1, "h", "x"),
     ReviewDict("a.py", "a.py", "new", 1, 1, "g", "y\n"),
     ReviewDict("a.py", "a.py", "new", 1, 1, "h", "xy"),
     ReviewDict("a.py", "a.py", "old", 1, 1, "h", "x"),
     ReviewDict("a.py", "a.py", "new", 1, 2, "h", " z"),
     ReviewDict("b.py", "o.py", "old", 2, 2, "h", "y\n")}

ReviewLists == UNION {[1..k -> ReviewSet] : k \in 0..MaxReviews}

\* what _process_single_chunk gives for one LLM call: a list of reviews
\* (None when there is none) or an exception (call_agent raised, or the
\* YAML block did not parse)
Answer(failed, reviews) == [failed |-> failed, reviews |-> reviews]

AllAnswers == {Answer(FALSE, rs) : rs \in ReviewLists} \cup {Answer(TRUE, <<>>)}

NoFindings == {Answer(FALSE, <<>>)}

-----------------------------------------------------------------------------
(* app/services/agent/agent.py: AgentService.get_prediction, on the diff   *)
(* text of the patch handler                                               *)

InitRun(handlers, messages, fileLists) ==
    /\ a_pc = "fetched"
    /\ handler \in handlers
    /\ commit_message \in messages
    /\ files \in fileLists
    /\ query = ""
    /\ chunks = <<>>
    /\ chunk_idx = 1
    /\ chunk_results = <<>>
    /\ sent = <<>>
    /\ returned = <<>>

\* patch_handler.get_extended_diff_content(commit_message=title)
GetExtendedDiffContent ==
    /\ a_pc = "fetched"
    /\ query' = IF handler = "gitlab"
                THEN GitlabExtendedDiffContent(files, commit_message)
                ELSE GithubExtendedDiffContent(files, commit_message)
    /\ a_pc' = "extended"
    /\ UNCHANGED <<handler, commit_message, files, chunks, chunk_idx,
                   chunk_results, sent, returned>>
    /\ UNCHANGED <<patchVars, pubVars, hookVars, yamlVars, splitVars, llmVars, upsertVars>>

\* get_prediction, steps 1 to 3: within the limit the query is processed in
\* a single request, otherwise it is split
GetPredictionBegin ==
    /\ a_pc = "extended"
    /\ IF is_within_limit(query)
       THEN /\ a_pc' = "single"
            /\ chunks' = chunks
       ELSE /\ a_pc' = "chunks"
            /\ chunks' = split_diff_by_files(query)
    /\ chunk_idx' = 1
    /\ chunk_results' = <<>>
    /\ UNCHANGED <<handler, commit_message, files, query, sent, returned>>
    /\ UNCHANGED <<patchVars, pubVars, hookVars, yamlVars, splitVars, llmVars, upsertVars>>

\* return await self._process_single_chunk(query)
ProcessSingle(answers) ==
    /\ a_pc = "single"
    /\ sent' = Append(sent, query)
    /\ \E answer \in answers :
          IF answer.failed
          THEN /\ a_pc' = "raised"
               /\ returned' = returned
          ELSE /\ a_pc' = "returned"
               /\ returned' = answer.reviews
    /\ UNCHANGED <<handler, commit_message, files, query, chunks, chunk_idx,
                   chunk_results>>
    /\ UNCHANGED <<patchVars, pubVars, hookVars, yamlVars, splitVars, llmVars, upsertVars>>

\* one iteration of "for i, chunk in enumerate(chunks)": an exception of
\* _process_single_chunk is caught and the chunk's result is None
ProcessChunk(answers) ==
    /\ a_pc = "chunks"
    /\ chunk_idx <= Len(chunks)
    /\ sent' = Append(sent, chunks[chunk_idx])
    /\ \E answer \in answers :
          chunk_results' = Append(chunk_results,
                                  [chunk_index |-> chunk_idx - 1,
                                   failed |-> answer.failed,
                                   reviews |-> answer.reviews])
    /\ chunk_idx' = chunk_idx + 1
    /\ UNCHANGED <<a_pc, handler, commit_message, files, query, chunks, returned>>
    /\ UNCHANGED <<patchVars, pubVars, hookVars, yamlVars, splitVars, llmVars, upsertVars>>

\* step 5: merge_reviews(chunk_results), given back as Review objects (None
\* when the list is empty)
MergeChunkResults ==
    /\ a_pc = "chunks"
    /\ chunk_idx > Len(chunks)
    /\ returned' = merge_reviews(chunk_results)
    /\ a_pc' = "returned"
    /\ UNCHANGED <<handler, commit_message, files, query, chunks, chunk_idx,
                   chunk_results, sent>>
    /\ UNCHANGED <<patchVars, pubVars, hookVars, yamlVars, splitVars, llmVars, upsertVars>>

\* the chunking of the diff text of either patch handler; the reviews the
\* LLM gives are left out
InitChunk ==
    /\ UpsertIdle
    /\ LlmIdle
    /\ SplitIdle
    /\ YamlIdle
    /\ HookIdle
    /\ PatchIdle
    /\ PubIdle
    /\ InitRun({"gitlab", "github"}, {"", "fix"}, FileLists)

NextChunk ==
    \/ GetExtendedDiffContent
    \/ GetPredictionBegin
    \/ ProcessSingle(NoFindings)
    \/ ProcessChunk(NoFindings)
    \/ MergeChunkResults

SpecChunk == InitChunk /\ [][NextChunk]_vars

\* the reviews of a diff text that is reviewed in one request and of one
\* that is reviewed in two chunks
InitMerge ==
    /\ UpsertIdle
    /\ LlmIdle
    /\ SplitIdle
    /\ YamlIdle
    /\ HookIdle
    /\ PatchIdle
    /\ PubIdle
    /\ InitRun({"gitlab"}, {"fix"}, {<<FileA>>, <<FileA, FileB>>})

NextMerge ==
    \/ GetExtendedDiffContent
    \/ GetPredictionBegin
    \/ ProcessSingle(AllAnswers)
    \/ ProcessChunk(AllAnswers)
    \/ MergeChunkResults

SpecMerge == InitMerge /\ [][NextMerge]_vars

-----------------------------------------------------------------------------
(* app/services/publish: publish()                                         *)
(*                                                                         *)
(* A request holds the body of the posted comment and the fields that      *)
(* place it; the commit shas are left out.  An absent line (None) is <<>>, *)
(* a line n is <<n>>.                                                      *)

MaxPublished == 2

\* how many times the handler is run on one webhook body
MaxRuns == 2

\* how many review items an answer of the LLM holds
MaxItems == 2

\* index of the first occurrence of sub in s at or after position from, 0
\* when there is none
FindSub(s, sub, from) ==
    LET hits == {i \in from..(Len(s) - Len(sub) + 1) :
                     SubSeq(s, i, i + Len(sub) - 1) = sub}
    IN  IF hits = {} THEN 0 ELSE CHOOSE i \in hits : \A j \in hits : i <= j

\* s.replace(old, new), old not empty
RECURSIVE Replace(_, _, _)
Replace(s, old, new) ==
    LET k == FindSub(s, old, 1)
    IN  IF k = 0 THEN s
        ELSE SubSeq(s, 1, k - 1) \o new
             \o Replace(SubSeq(s, k + Len(old), Len(s)), old, new)

\* the bot_name the services are made with, without its emoji
bot_name == "AI Review Bot"

ISSUE_COMMENT_MARKDOWN_TEMPLATE ==
    "<table><thead><tr><td><strong>Issue</strong></td><td><strong>Description</strong></td></tr></thead><tbody><tr><td>__issue_header__</td><td>__issue_content__</td></tr></tbody></table>"

ISSUE_REPORT_MARKDOWN_TEMPLATE ==
    "<tr>\n  <td>__issue_header__</td>\n  <td>__issue_code_url__</td>\n  <td>__issue_content__</td>\n</tr>"

\* the marker config.py sets for the comments of the bot
AI_COMMENT_MARKER == "<!-- powered by seele-review -->"

\* issue_content_markdown of the comment loops
IssueContentMarkdown(review) ==
    Replace(Replace(ISSUE_COMMENT_MARKDOWN_TEMPLATE,
                    "__issue_header__", review.issue_header),
            "__issue_content__", review.issue_content)

\* formatted_content: the body of an inline comment, on either forge
FormattedContent(review) == bot_name \o "\n\n" \o IssueContentMarkdown(review)

\* s.split(): the words of s between runs of white space
RECURSIVE Words(_)
Words(s) ==
    LET t == LStrip(s)
        ends == {i \in 1..Len(t) : IsSpace(CharAt(t, i))}
        k == IF ends = {} THEN Len(t) + 1
             ELSE CHOOSE i \in ends : \A j \in ends : i <= j
    IN  IF Len(t) = 0 THEN <<>>
        ELSE <<SubSeq(t, 1, k - 1)>> \o Words(SubSeq(t, k, Len(t)))

\* int(part.split(',')[0][1:]) for part "-12,3" or "+12"
RangeStart(part) ==
    LET c == FindChar(part, ",", 1)
        first == IF c = 0 THEN part ELSE SubSeq(part, 1, c - 1)
    IN  StrToInt(SubSeq(first, 2, Len(first)))

\* _get_diff_code: current_old_line and current_new_line after the first
\* '@@' line of the diff, 0 and 0 when it gives no two ranges
RECURSIVE DiffCodeStart(_)
DiffCodeStart(diff_lines) ==
    IF Len(diff_lines) = 0 THEN [old |-> 0, new |-> 0]
    ELSE IF StartsWith(Head(diff_lines), "@@")
    THEN LET rest == SubSeq(Head(diff_lines), 3, Len(Head(diff_lines)))
             k == FindSub(rest, "@@", 1)
             parts == Words(IF k = 0 THEN rest ELSE SubSeq(rest, 1, k - 1))
         IN  IF Len(parts) >= 2
             THEN [old |-> RangeStart(parts[1]), new |-> RangeStart(parts[2])]
             ELSE [old |-> 0, new |-> 0]
    ELSE DiffCodeStart(Tail(diff_lines))

\* _get_diff_code: the second loop, from the line counters st on
RECURSIVE DiffCodeLoop(_, _, _, _, _)
DiffCodeLoop(st, diff_lines, review_type, target_start, target_end) ==
    IF Len(diff_lines) = 0 THEN <<>>
    ELSE LET line == Head(diff_lines)
             line_num == IF review_type = "new" THEN st.new ELSE st.old
             next == IF StartsWith(line, "+") THEN [st EXCEPT !.new = @ + 1]
                     ELSE IF StartsWith(line, "-") THEN [st EXCEPT !.old = @ + 1]
                     ELSE [old |-> st.old + 1, new |-> st.new + 1]
         IN  IF StartsWith(line, "@@")
             THEN DiffCodeLoop(st, Tail(diff_lines), review_type,
                               target_start, target_end)
             ELSE (IF target_start <= line_num /\ line_num <= target_end
                   THEN <<line>> ELSE <<>>)
                  \o DiffCodeLoop(next, Tail(diff_lines), review_type,
                                  target_start, target_end)

\* GitlabPublishService._get_diff_code; found is 0 when diff_item is None
get_diff_code(items, found, review_type, start_line, end_line) ==
    IF found = 0 \/ items[found].diff = "" THEN ""
    ELSE LET diff_lines == SplitLines(items[found].diff)
         IN  Join(DiffCodeLoop(DiffCodeStart(diff_lines), diff_lines,
                               review_type, start_line - 3, end_line + 3),
                  "\n")

\* next(item for item in diff_items if item.new_path == new_path), 0 for None
RECURSIVE FindByNewPath(_, _, _)
FindByNewPath(items, idx, new_path) ==
    IF idx > Len(items) THEN 0
    ELSE IF items[idx].new_path = new_path THEN idx
    ELSE FindByNewPath(items, idx + 1, new_path)

\* mr_obj of the merge request the model reviews
web_url == "https://gitlab.com/g/p/-/merge_requests/1"

source_branch == "feature"

target_branch == "main"

\* the code fence of the report, three backquotes in the source; a string
\* of this module cannot hold a backquote and ''' stands for them
fence == "'''"

\* GitlabPublishService.publish, report mode: code_url of a review
GitlabCodeUrl(review, items) ==
    LET path == IF review.type = "new" THEN review.new_path ELSE review.old_path
        branch == IF review.type = "new" THEN source_branch ELSE target_branch
        lines == IntToStr(review.start_line) \o "-" \o IntToStr(review.end_line)
        diff_code == get_diff_code(items,
                                   FindByNewPath(items, 1, review.new_path),
                                   review.type, review.start_line,
                                   review.end_line)
    IN  "[Lines " \o IntToStr(review.start_line) \o " to "
        \o IntToStr(review.end_line) \o " in " \o path \o "]("
        \o web_url \o "/-/blob/" \o branch \o "/" \o path
        \o "?ref_type=heads#L" \o lines \o ")\n"
        \o "<details><summary>diff</summary>\n\n" \o fence \o "diff\n"
        \o diff_code \o "\n" \o fence \o "\n\n</details>"

\* a row of a report: the template with its three fields replaced in turn
ReportRow(review, code_url) ==
    Replace(Replace(Replace(ISSUE_REPORT_MARKDOWN_TEMPLATE,
                            "__issue_header__", review.issue_header),
                    "__issue_code_url__", code_url),
            "__issue_content__", review.issue_content)

\* issue_content_markdown of the GitLab report loop
RECURSIVE GitlabReportRows(_, _)
GitlabReportRows(rs, items) ==
    IF Len(rs) = 0 THEN ""
    ELSE ReportRow(Head(rs), GitlabCodeUrl(Head(rs), items)) \o "\n"
         \o GitlabReportRows(Tail(rs), items)

\* the body _publish_general_comment posts for the report
GitlabReportBody(rs, items) ==
    bot_name \o "\n\n" \o "## Issue List\n<table>\n"
    \o "  <thead><tr><td><strong>Issue</strong></td><td><strong>Code Location</strong></td><td><strong>Description</strong></td></tr></thead>\n"
    \o "  <tbody>\n" \o GitlabReportRows(rs, items) \o "\n</tbody>\n</table>"

\* pr_obj.html_url of the pull request the model reviews
html_url == "https://github.com/o/r/pull/1"

\* _get_file_anchor: hashlib.md5(file_path).hexdigest()[:8], for the paths
\* of the model
get_file_anchor(file_path) ==
    CASE file_path = "a.py" -> "4503e1c7"
      [] file_path = "b.py" -> "fc4bb34f"
      [] file_path = "o.py" -> "c59bc36d"
      [] file_path = "c.py" -> "a9cc6a88"
      [] file_path = "d.svg" -> "c560c5dd"

\* _publish_report: report_rows joined
RECURSIVE GithubReportRows(_)
GithubReportRows(rs) ==
    IF Len(rs) = 0 THEN ""
    ELSE LET review == Head(rs)
             at == review.new_path \o ":" \o IntToStr(review.end_line)
             code_url == html_url \o "/files#diff-"
                         \o get_file_anchor(review.new_path) \o "R"
                         \o IntToStr(review.end_line)
         IN  ReportRow(review, "[" \o at \o "](" \o code_url \o ")")
             \o GithubReportRows(Tail(rs))

\* _publish_report: report_content, the body of the issue comment
GithubReportBody(rs) ==
    "\n" \o bot_name
    \o "\n\n## Code Review Report\n\n<table>\n<thead>\n<tr>\n<th>Issue</th>\n<th>Location</th>\n<th>Description</th>\n</tr>\n</thead>\n<tbody>\n"
    \o GithubReportRows(rs)
    \o "\n</tbody>\n</table>\n\n**Total Issues Found:** " \o IntToStr(Len(rs))
    \o "\n"

\* GithubPublishService._publish_comments: the diff item of a review, 0 when
\* there is none
RECURSIVE FindDiffItem(_, _, _, _)
FindDiffItem(items, idx, new_path, old_path) ==
    IF idx > Len(items) THEN 0
    ELSE IF items[idx].new_path = new_path \/ items[idx].old_path = old_path
    THEN idx
    ELSE FindDiffItem(items, idx + 1, new_path, old_path)

GithubSideRight(review_type) == "RIGHT"

\* the side argument of the two _publish_review_comment calls
GithubSide(review_type) ==
    IF review_type = "new" THEN "RIGHT" ELSE "LEFT"

\* the path argument: new_path in both calls
GithubPath(review) == review.new_path

\* GithubPublishService._publish_review_comment: the request data
GithubCommentData(review) ==
    [path |-> GithubPath(review),
     line |-> review.end_line,
     side |-> GithubSide(review.type)]

\* GitlabPublishService._publish_line_comment: the position of the discussion
GitlabPosition(review) ==
    [new_path |-> review.new_path,
     old_path |-> review.old_path,
     new_line |-> IF review.type = "new" THEN <<review.end_line>> ELSE <<>>,
     old_line |-> IF review.type = "old" THEN <<review.end_line>> ELSE <<>>]

PublishedLists ==
    UNION {[1..n -> ReviewSet] : n \in 1..MaxPublished}

\* the callback argument: None, or the dict the router builds, whose
\* push_url is the notification URL ('' when none is configured)
Callbacks ==
    {<<>>, <<[push_url |-> ""]>>, <<[push_url |-> "https://hooks.example/T1"]>>}

\* what the post to the notification webhook does: answers 200, answers
\* another status, or raises (timeout, connection error)
NotifyOutcomes == {"sent", "bad_status", "exception"}

AfterNotificationRaising(outcome) ==
    IF outcome = "sent" THEN "done" ELSE "raised"

\* where publish() is after the notification: _send_notification catches
\* every exception of the post and of raise_for_status, and
\* send_review_notification turns every failure into the value False, which
\* publish() ignores
AfterNotification(outcome) == "done"

\* publish(): the branch taken on mode
PublishStart(m) == IF m = "comment" THEN "loop" ELSE "report"

PublishInputs(forges, modes, lists, callbacks) ==
    /\ forge \in forges
    /\ mode \in modes
    /\ pub_reviews \in lists
    /\ diff_items \in {<<FileA>>, <<FileA, FileB>>}
    /\ callback \in callbacks
    /\ pub_pc = PublishStart(mode)
    /\ review_idx = 1
    /\ requests = <<>>
    /\ skipped = {}
    /\ notes = <<>>
    /\ notified = <<>>
    /\ run = 1

InitPublish ==
    /\ UpsertIdle
    /\ LlmIdle
    /\ SplitIdle
    /\ YamlIdle
    /\ HookIdle
    /\ PatchIdle
    /\ AgentIdle
    /\ PublishInputs({"github", "gitlab"}, {"comment", "report"},
                     PublishedLists, Callbacks)

\* _publish_comments, a review with no diff item: warn and continue
GithubSkipComment ==
    /\ pub_pc = "loop"
    /\ forge = "github"
    /\ review_idx <= Len(pub_reviews)
    /\ FindDiffItem(diff_items, 1, pub_reviews[review_idx].new_path,
                    pub_reviews[review_idx].old_path) = 0
    /\ skipped' = skipped \cup {review_idx}
    /\ review_idx' = review_idx + 1
    /\ UNCHANGED <<pub_pc, forge, pub_reviews, diff_items, requests, mode,
                   callback, notes, notified, run>>
    /\ UNCHANGED <<patchVars, agentVars, hookVars, yamlVars, splitVars, llmVars, upsertVars>>

\* _publish_comments, a review with a diff item: post the comment; an
\* exception of the post is caught and the loop continues
GithubPublishComment ==
    /\ pub_pc = "loop"
    /\ forge = "github"
    /\ review_idx <= Len(pub_reviews)
    /\ FindDiffItem(diff_items, 1, pub_reviews[review_idx].new_path,
                    pub_reviews[review_idx].old_path) # 0
    /\ \E ok \in BOOLEAN :
           requests' = Append(requests,
                              [review_index |-> review_idx,
                               data |-> GithubCommentData(pub_reviews[review_idx]),
                               body |-> FormattedContent(pub_reviews[review_idx]),
                               run |-> run,
                               ok |-> ok])
    /\ review_idx' = review_idx + 1
    /\ UNCHANGED <<pub_pc, forge, pub_reviews, diff_items, skipped, mode,
                   callback, notes, notified, run>>
    /\ UNCHANGED <<patchVars, agentVars, hookVars, yamlVars, splitVars, llmVars, upsertVars>>

\* GitlabPublishService.publish, one turn of the comment loop: post the
\* discussion; raise_for_status() raises out of publish()
GitlabPublishComment ==
    /\ pub_pc = "loop"
    /\ forge = "gitlab"
    /\ review_idx <= Len(pub_reviews)
    /\ \E ok \in BOOLEAN :
           /\ requests' = Append(requests,
                                 [review_index |-> review_idx,
                                  data |-> GitlabPosition(pub_reviews[review_idx]),
                                  body |-> FormattedContent(pub_reviews[review_idx]),
                                  run |-> run,
                                  ok |-> ok])
           /\ IF ok
              THEN review_idx' = review_idx + 1 /\ pub_pc' = pub_pc
              ELSE review_idx' = review_idx /\ pub_pc' = "raised"
    /\ UNCHANGED <<forge, pub_reviews, diff_items, skipped, mode, callback,
                   notes, notified, run>>
    /\ UNCHANGED <<patchVars, agentVars, hookVars, yamlVars, splitVars, llmVars, upsertVars>>

\* the comment loop of either publisher ends
PublishCommentsEnd ==
    /\ pub_pc = "loop"
    /\ review_idx > Len(pub_reviews)
    /\ pub_pc' = "published"
    /\ UNCHANGED <<forge, pub_reviews, diff_items, review_idx, requests,
                   skipped, mode, callback, notes, notified, run>>
    /\ UNCHANGED <<patchVars, agentVars, hookVars, yamlVars, splitVars, llmVars, upsertVars>>

\* GithubPublishService._publish_report: nothing without reviews; else one
\* issue comment, whose failure is printed and raised again
GithubPublishReport ==
    /\ pub_pc = "report"
    /\ forge = "github"
    /\ IF pub_reviews = <<>>
       THEN notes' = notes /\ pub_pc' = "published"
       ELSE \E ok \in BOOLEAN :
                /\ notes' = Append(notes,
                                   [body |-> GithubReportBody(pub_reviews),
                                    run |-> run,
                                    ok |-> ok])
                /\ pub_pc' = IF ok THEN "published" ELSE "raised"
    /\ UNCHANGED <<forge, pub_reviews, diff_items, review_idx, requests,
                   skipped, mode, callback, notified, run>>
    /\ UNCHANGED <<patchVars, agentVars, hookVars, yamlVars, splitVars, llmVars, upsertVars>>

\* GitlabPublishService.publish, report mode: one note on the merge request;
\* raise_for_status() raises out of publish()
GitlabPublishReport ==
    /\ pub_pc = "report"
    /\ forge = "gitlab"
    /\ \E ok \in BOOLEAN :
           /\ notes' = Append(notes,
                              [body |-> GitlabReportBody(pub_reviews, diff_items),
                               run |-> run,
                               ok |-> ok])
           /\ pub_pc' = IF ok THEN "published" ELSE "raised"
    /\ UNCHANGED <<forge, pub_reviews, diff_items, review_idx, requests,
                   skipped, mode, callback, notified, run>>
    /\ UNCHANGED <<patchVars, agentVars, hookVars, yamlVars, splitVars, llmVars, upsertVars>>

\* GithubPublishService.publish, after the posts: the notification is sent
\* when the callback has a push_url
GithubNotify ==
    /\ pub_pc = "published"
    /\ forge = "github"
    /\ IF callback # <<>> /\ callback[1].push_url # ""
       THEN \E outcome \in NotifyOutcomes :
                /\ notified' = Append(notified,
                                      [url |-> callback[1].push_url,
                                       run |-> run,
                                       outcome |-> outcome])
                /\ pub_pc' = AfterNotification(outcome)
       ELSE notified' = notified /\ pub_pc' = "done"
    /\ UNCHANGED <<forge, pub_reviews, diff_items, review_idx, requests,
                   skipped, mode, callback, notes, run>>
    /\ UNCHANGED <<patchVars, agentVars, hookVars, yamlVars, splitVars, llmVars, upsertVars>>

\* GitlabPublishService.publish, after the posts: with a callback
\* SlackNotifier.send_review_notification runs, which posts when push_url
\* (the notifier has no webhook_url of its own) is not empty
GitlabNotify ==
    /\ pub_pc = "published"
    /\ forge = "gitlab"
    /\ IF callback # <<>> /\ callback[1].push_url # ""
       THEN \E outcome \in NotifyOutcomes :
                /\ notified' = Append(notified,
                                      [url |-> callback[1].push_url,
                                       run |-> run,
                                       outcome |-> outcome])
                /\ pub_pc' = AfterNotification(outcome)
       ELSE notified' = notified /\ pub_pc' = "done"
    /\ UNCHANGED <<forge, pub_reviews, diff_items, review_idx, requests,
                   skipped, mode, callback, notes, run>>
    /\ UNCHANGED <<patchVars, agentVars, hookVars, yamlVars, splitVars, llmVars, upsertVars>>

NextPublish ==
    \/ GithubSkipComment
    \/ GithubPublishComment
    \/ GitlabPublishComment
    \/ PublishCommentsEnd
    \/ GithubPublishReport
    \/ GitlabPublishReport
    \/ GithubNotify
    \/ GitlabNotify

SpecPublish == InitPublish /\ [][NextPublish]_vars

\* ---- the report of a merge request whose diff has several hunks

\* a file changed in two places
FileH == DiffItem("h.py", "h.py",
                  "@@ -1,2 +1,2 @@\n a\n-b\n+c\n@@ -20,2 +20,3 @@\n x\n+y\n z",
                  FALSE)

\* one review of a.py or h.py, on the old or the new side, at lines in and
\* around the hunks
SnippetReviews ==
    {<<ReviewDict(path, path, type, start_line, start_line + more, "h", "x")>> :
         path \in {"a.py", "h.py"}, type \in {"new", "old"},
         start_line \in {1, 2, 5, 18, 20, 21}, more \in {0, 1}}

InitSnippet ==
    /\ UpsertIdle
    /\ LlmIdle
    /\ SplitIdle
    /\ YamlIdle
    /\ HookIdle
    /\ PatchIdle
    /\ AgentIdle
    /\ forge = "gitlab"
    /\ mode = "report"
    /\ pub_reviews \in SnippetReviews
    /\ diff_items = <<FileA, FileH>>
    /\ callback \in Callbacks
    /\ pub_pc = PublishStart(mode)
    /\ review_idx = 1
    /\ requests = <<>>
    /\ skipped = {}
    /\ notes = <<>>
    /\ notified = <<>>
    /\ run = 1

NextSnippet ==
    \/ GitlabPublishReport
    \/ GitlabNotify

SpecSnippet == InitSnippet /\ [][NextSnippet]_vars

\* the same webhook body delivered again: the handler runs once more and
\* calls publish() with the same arguments; the comments of the earlier run
\* stay on the pull request or merge request
PublishAgain ==
    /\ pub_pc = "done"
    /\ run < MaxRuns
    /\ run' = run + 1
    /\ pub_pc' = PublishStart(mode)
    /\ review_idx' = 1
    /\ skipped' = {}
    /\ UNCHANGED <<forge, pub_reviews, diff_items, requests, mode, callback,
                   notes, notified>>
    /\ UNCHANGED <<patchVars, agentVars, hookVars, yamlVars, splitVars, llmVars, upsertVars>>

RepublishedLists ==
    UNION {[1..n -> {ReviewDict("a.py", "a.py", "new", 1, 1, "h", "x"),
                     ReviewDict("b.py", "o.py", "old", 2, 2, "h", "y\n")}] :
               n \in 1..MaxPublished}

InitRepublish ==
    /\ UpsertIdle
    /\ LlmIdle
    /\ SplitIdle
    /\ YamlIdle
    /\ HookIdle
    /\ PatchIdle
    /\ AgentIdle
    /\ PublishInputs({"github", "gitlab"}, {"comment", "report"},
                     RepublishedLists, {<<[push_url |-> ""]>>})

NextRepublish ==
    \/ NextPublish
    \/ PublishAgain

SpecRepublish == InitRepublish /\ [][NextRepublish]_vars

-----------------------------------------------------------------------------
(* app/services/agent/agent.py: AgentService.call_agent in the chunk loop  *)

\* how "await self.client.chat.completions.create(..., stream=True)" and the
\* "async for chunk in completion" after it end: the answer is streamed; the
\* request fails with a connection error, a timeout or a 5xx; or the
\* connection breaks while the answer is streamed
CallOutcomes ==
    {"answer", "connection_error", "timeout", "status_5xx", "stream_error"}

\* AsyncOpenAI(api_key=..., base_url=...): max_retries is left at the
\* client's default
max_retries == 2

\* the requests the client makes for one create call: a request that fails
\* before the response starts is made again max_retries times by the
\* client; what fails once the stream is open is raised as it is
Requests(outcome) ==
    IF outcome \in {"connection_error", "timeout", "status_5xx"}
    THEN max_retries + 1
    ELSE 1

InitCalls ==
    /\ UpsertIdle
    /\ PatchIdle
    /\ AgentIdle
    /\ PubIdle
    /\ HookIdle
    /\ YamlIdle
    /\ SplitIdle
    /\ llm_pc = "loop"
    /\ llm_chunks \in 1..MaxChunks
    /\ llm_idx = 0
    /\ llm_calls = <<>>
    /\ llm_results = <<>>

\* one iteration of the chunk loop: _process_single_chunk calls call_agent,
\* which makes one chat.completions.create call, reads the stream and
\* re-raises what either raises; the loop catches the exception and appends
\* a result of None
ReviewChunk ==
    /\ llm_pc = "loop"
    /\ llm_idx < llm_chunks
    /\ \E outcome \in CallOutcomes :
           /\ llm_calls' = llm_calls \o
                  [j \in 1..Requests(outcome) |->
                      [chunk_index |-> llm_idx, outcome |-> outcome]]
           /\ llm_results' = Append(llm_results,
                                    [chunk_index |-> llm_idx,
                                     failed |-> outcome # "answer"])
    /\ llm_idx' = llm_idx + 1
    /\ UNCHANGED <<llm_pc, llm_chunks>>
    /\ UNCHANGED <<patchVars, agentVars, pubVars, hookVars, yamlVars, splitVars, upsertVars>>

\* the loop is over: the results are merged
ReviewChunksEnd ==
    /\ llm_pc = "loop"
    /\ llm_idx = llm_chunks
    /\ llm_pc' = "merged"
    /\ UNCHANGED <<llm_chunks, llm_idx, llm_calls, llm_results>>
    /\ UNCHANGED <<patchVars, agentVars, pubVars, hookVars, yamlVars, splitVars, upsertVars>>

NextCalls ==
    \/ ReviewChunk
    \/ ReviewChunksEnd

SpecCalls == InitCalls /\ [][NextCalls]_vars

-----------------------------------------------------------------------------
(* app/services/agent/utils.py                                             *)
(*                                                                         *)
(* The three backticks of a Markdown fence are written fence.              *)

\* whether the stripped line starts a review item
IsItemStart(stripped) ==
    StartsWith(stripped, "- newPath:") \/ StartsWith(stripped, "-newPath:")

valid_fields ==
    {"newPath", "oldPath", "startLine", "endLine", "type", "issueHeader",
     "issueContent"}

\* the line fix_yaml_format_issues puts for a line inside a review item
FixedFieldLine(line) ==
    LET trimmed_line == Strip(line)
        colon_index  == FindChar(trimmed_line, ":", 1)
        field_name   == Strip(SubSeq(trimmed_line, 1, colon_index - 1))
        field_value  == Strip(SubSeq(trimmed_line, colon_index + 1,
                                     Len(trimmed_line)))
    IN  IF colon_index # 0
        THEN IF field_name \in valid_fields
             THEN IF field_name \in {"newPath", "oldPath", "type",
                                     "issueHeader", "issueContent"}
                  THEN "    " \o field_name \o ": |"
                  ELSE "    " \o field_name \o ": " \o field_value
             ELSE "    " \o trimmed_line
        ELSE IF trimmed_line # "" THEN "      " \o trimmed_line
        ELSE line

\* the for loop of fix_yaml_format_issues from line i on
RECURSIVE FixLoop(_, _, _)
FixLoop(lines, i, in_review_item) ==
    IF i > Len(lines) THEN <<>>
    ELSE IF IsItemStart(Strip(lines[i]))
    THEN <<"  - newPath: |">> \o FixLoop(lines, i + 1, TRUE)
    ELSE IF in_review_item
    THEN <<FixedFieldLine(lines[i])>>
         \o FixLoop(lines, i + 1,
                    ~(i + 1 <= Len(lines) /\ IsItemStart(Strip(lines[i + 1]))))
    ELSE <<lines[i]>> \o FixLoop(lines, i + 1, FALSE)

fix_yaml_format_issues(yaml_content) ==
    Join(FixLoop(SplitLines(yaml_content), 1, FALSE), "\n")

\* re.search(r'(fence)yaml\s*([\s\S]*?)\s*(fence)', markdown_text):
\* <<>> without a match, else <<match.group(1)>>
YamlBlock(text) ==
    LET k    == FindSub(text, fence \o "yaml", 1)
        body == LStrip(SubSeq(text, k + Len(fence) + 4, Len(text)))
        f    == FindSub(body, fence, 1)
    IN  IF k = 0 \/ f = 0 THEN <<>> ELSE <<RStrip(SubSeq(body, 1, f - 1))>>

\* ---- yaml.safe_load, on the documents of the model: a first line
\* "reviews:" and then the lines of review items, two or four spaces deep

\* the column a line's text starts in
Indent(line) == Len(line) - Len(LStrip(line))

\* a line "key: value" (after its dash, if it has one): the key and the text
\* of the value
FieldText(line) ==
    LET stripped == Strip(line)
        t == IF StartsWith(stripped, "- ")
             THEN Strip(SubSeq(stripped, 3, Len(stripped)))
             ELSE stripped
        k == FindChar(t, ":", 1)
    IN  [key |-> SubSeq(t, 1, k - 1), value |-> Strip(SubSeq(t, k + 1, Len(t)))]

\* the scanner's "mapping values are not allowed here": a value that holds
\* ': ', or a key on a line deeper than the plain scalar value it follows
\* (the lines under an item that starts '-newPath:', which is read as a key)
ScannerError(lines) ==
    \/ \E i \in 2..Len(lines) : Contains(FieldText(lines[i]).value, ": ")
    \/ \E i \in 2..(Len(lines) - 1) :
           /\ StartsWith(Strip(lines[i]), "-newPath:")
           /\ Indent(lines[i + 1]) > Indent(lines[i])
           /\ FindChar(lines[i + 1], ":", 1) # 0

\* a block scalar '|' with no deeper line under it is the empty string
FieldValue(text) == IF text = "|" THEN "" ELSE text

\* the mappings of the block sequence: a line "- key: value" starts one
RECURSIVE LoadItems(_, _, _)
LoadItems(lines, i, items) ==
    IF i > Len(lines) THEN items
    ELSE LET field == FieldText(lines[i])
             entry == DictSet(IF StartsWith(Strip(lines[i]), "- ")
                              THEN EmptyDict
                              ELSE items[Len(items)],
                              field.key, FieldValue(field.value))
         IN  LoadItems(lines, i + 1,
                       IF StartsWith(Strip(lines[i]), "- ")
                       THEN Append(items, entry)
                       ELSE [items EXCEPT ![Len(items)] = entry])

\* yaml.safe_load(text): YAMLError, or the value loaded.  A document whose
\* first item line has no "- " is a mapping under reviews, not a list
safe_load(text) ==
    LET lines == SplitLines(text)
    IN  IF ScannerError(lines) THEN [kind |-> "YAMLError"]
        ELSE IF Len(lines) >= 2 /\ StartsWith(Strip(lines[2]), "- ")
        THEN [kind |-> "reviews", reviews |-> LoadItems(lines, 2, <<>>)]
        ELSE [kind |-> "other"]

\* ---- the pydantic models of app/schemas/agent/review.py

\* the fields of YamlContent; fixApplied and fixedContent are aliases
YamlContentFields == {"content", "parsed", "error", "fix_applied", "fixed_content"}

\* YamlContent(content=yaml_content, fixedContent=None, parsed=None,
\* error=None, fixApplied=False); None is <<>>
YamlContent(yaml_content) ==
    [content |-> yaml_content, fixed_content |-> <<>>, parsed |-> <<>>,
     error |-> <<>>, fix_applied |-> FALSE]

AllDigits(text) ==
    text # "" /\ \A i \in 1..Len(text) : IsDigit(CharAt(text, i))

\* Review(**review) validates: every field is there, type is 'old' or 'new',
\* the lines are integers
ValidReview(review) ==
    /\ valid_fields \subseteq DOMAIN review
    /\ review["type"] \in {"old", "new"}
    /\ AllDigits(review["startLine"])
    /\ AllDigits(review["endLine"])

\* "Clean possible newline characters": the three fields get a default
CleanReview(review) ==
    LET get(key, default) == IF key \in DOMAIN review THEN review[key] ELSE default
    IN  DictSet(DictSet(DictSet(review, "newPath", get("newPath", "")),
                        "oldPath", get("oldPath", "")),
                "type", get("type", "new"))

\* MRReview(**mr_review_dict).model_dump()
ModelDump(cleaned) ==
    [i \in 1..Len(cleaned) |->
        ReviewDict(cleaned[i]["newPath"], cleaned[i]["oldPath"],
                   cleaned[i]["type"], StrToInt(cleaned[i]["startLine"]),
                   StrToInt(cleaned[i]["endLine"]), cleaned[i]["issueHeader"],
                   cleaned[i]["issueContent"])]

\* the statements after yaml.safe_load in either try block: the result with
\* parsed set, or with the exception the validation raised
Parsed(result, loaded) ==
    IF loaded.kind # "reviews" THEN result
    ELSE LET cleaned == [i \in 1..Len(loaded.reviews) |->
                            CleanReview(loaded.reviews[i])]
         IN  IF \A i \in 1..Len(cleaned) : ValidReview(cleaned[i])
             THEN [result EXCEPT !.parsed = <<[reviews |-> ModelDump(cleaned)]>>]
             ELSE [result EXCEPT !.error = <<"ValidationError">>]

\* ---- the answers of the model: a yaml block of one or more review items

\* the lines of an item: its dash with or without the space, its content
\* with or without a colon, and with all its fields or only two
ItemLines(item) ==
    <<"  " \o item.dash \o "newPath: a.py">>
    \o (IF item.complete
        THEN <<"    oldPath: a.py", "    type: new", "    startLine: 1",
               "    endLine: 1", "    issueHeader: h">>
        ELSE <<>>)
    \o <<"    issueContent: " \o item.content>>

ItemShapes ==
    [dash : {"- ", "-"}, content : {"x", "note: x"}, complete : BOOLEAN]

RECURSIVE BlockLines(_)
BlockLines(items) ==
    IF Len(items) = 0 THEN <<>>
    ELSE ItemLines(Head(items)) \o BlockLines(Tail(items))

AnswerOf(items) ==
    "Review:\n" \o fence \o "yaml\n"
    \o Join(<<"reviews:">> \o BlockLines(items), "\n") \o "\n" \o fence \o "\n"

AnswerTexts ==
    {AnswerOf(items) :
         items \in UNION {[1..n -> ItemShapes] : n \in 1..MaxItems}}
    \cup {"No issues found."}

InitYaml ==
    /\ UpsertIdle
    /\ LlmIdle
    /\ SplitIdle
    /\ PatchIdle
    /\ AgentIdle
    /\ PubIdle
    /\ HookIdle
    /\ y_pc = "start"
    /\ markdown_text \in AnswerTexts
    /\ yaml_result = <<>>

\* the regex search and the construction of the result
SearchBlock ==
    /\ y_pc = "start"
    /\ IF YamlBlock(markdown_text) = <<>>
       THEN y_pc' = "done" /\ yaml_result' = <<>>
       ELSE /\ y_pc' = "parse"
            /\ yaml_result' = <<YamlContent(YamlBlock(markdown_text)[1])>>
    /\ UNCHANGED markdown_text
    /\ UNCHANGED <<patchVars, agentVars, pubVars, hookVars, splitVars, llmVars, upsertVars>>

\* the outer try: yaml.safe_load(yaml_content); a YAMLError leads to the
\* repair, any other exception is stored in result.error
ParseDirectly ==
    /\ y_pc = "parse"
    /\ LET loaded == safe_load(yaml_result[1].content)
       IN  IF loaded.kind = "YAMLError"
           THEN y_pc' = "fix" /\ yaml_result' = yaml_result
           ELSE /\ y_pc' = "done"
                /\ yaml_result' = <<Parsed(yaml_result[1], loaded)>>
    /\ UNCHANGED markdown_text
    /\ UNCHANGED <<patchVars, agentVars, pubVars, hookVars, splitVars, llmVars, upsertVars>>

\* the inner try: fix_yaml_format_issues, "result.fixedContent = ..." and
\* "result.fixApplied = True" (a pydantic model raises ValueError when a
\* name that is not a field is assigned), the second yaml.safe_load; any
\* exception is stored in result.error
ParseFixed ==
    /\ y_pc = "fix"
    /\ LET fixed_yaml_content == fix_yaml_format_issues(yaml_result[1].content)
           loaded == safe_load(fixed_yaml_content)
       IN  yaml_result' =
               IF "fixedContent" \notin YamlContentFields
               THEN <<[yaml_result[1] EXCEPT !.error = <<"ValueError">>]>>
               ELSE IF loaded.kind = "YAMLError"
               THEN <<[yaml_result[1] EXCEPT !.fixed_content = <<fixed_yaml_content>>,
                                             !.fix_applied = TRUE,
                                             !.error = <<"YAMLError">>]>>
               ELSE <<Parsed([yaml_result[1] EXCEPT
                                  !.fixed_content = <<fixed_yaml_content>>,
                                  !.fix_applied = TRUE], loaded)>>
    /\ y_pc' = "done"
    /\ UNCHANGED markdown_text
    /\ UNCHANGED <<patchVars, agentVars, pubVars, hookVars, splitVars, llmVars, upsertVars>>

NextYaml ==
    \/ SearchBlock
    \/ ParseDirectly
    \/ ParseFixed

SpecYaml == InitYaml /\ [][NextYaml]_vars

-----------------------------------------------------------------------------
(* app/routers/github.py: handle_github_webhook_trigger                    *)
(*                                                                         *)
(* A response is its status code and the fields of its JSON content; the   *)
(* text of an exception ("error", "detail" after the colon) is left out.   *)

pr_number == 1

\* hmac.new(key, msg, hashlib.sha256).hexdigest(), on the keys and the
\* request bodies of the model
hmac_sha256_hexdigest(key, msg) ==
    CASE key = "k1" /\ msg = "opened" ->
             "23a4de77a0766e32fe5db6e5614e41c18a6e5eb956bc602d3fa0a03b9a84b86c"
      [] key = "k1" /\ msg = "reopened" ->
             "e4f91a0facfc902ef72c27da1c069b94224e4a91929add257c1a571a89910f9f"
      [] key = "k1" /\ msg = "synchronize" ->
             "bc7d8f495cc70b326cf44dae567171230261a356766ae5f356c739f4f9b54290"
      [] key = "k1" /\ msg = "closed" ->
             "2d9b42c12d59b70edbc1df04e94c9f7c63a97d040f3b88f800dfaf6217d6db7f"
      [] key = "k1" /\ msg = "draft" ->
             "681b9d58f57ab29cb5dc5291d919a22a012379d7c97a9334d25aa55e667e0447"
      [] key = "k1" /\ msg = "invalid" ->
             "6d5c2dec08e434f06bd3f4eed5ace77f6ff6e7e2620f5c84b601859d547f627d"
      [] key = "k1" /\ msg = "wip" ->
             "e129d315464c066806ed79cf50b999e3f991e46f3cfc3082fe12a95bf9eb9ef6"
      [] key = "k2" /\ msg = "opened" ->
             "25cedecdda7efe2fdc1ce06878df712c63015f35d42d4c1d92826583e552ef50"
      [] key = "k2" /\ msg = "reopened" ->
             "5b25c23fb176b9f587866b38036f1fa82ad7b48dfe6f95edbb7ce5ea767d0d10"
      [] key = "k2" /\ msg = "synchronize" ->
             "62de0ffab40d621f9c53a25577857296cb5640d2585535cabb5d30705aee64e3"
      [] key = "k2" /\ msg = "closed" ->
             "b6df0afac0efc85a5cfc3c7f8c562a2dee1d7530151073cb7069ccdb34053a1b"
      [] key = "k2" /\ msg = "draft" ->
             "9c0f12a34e85b24f4675902f00a3f95fb5167146531acfef296a0e6579820127"
      [] key = "k2" /\ msg = "invalid" ->
             "c60f981feec16478dc12f93731afb8fec499de8c934b3547753782df48712188"
      [] key = "k2" /\ msg = "wip" ->
             "b1dfbd258bbd5cce47fb1401f004eb25eb980ae46551c9ad973f58ba6ad72134"

verify_any_signature(github_webhook_secret, signature, payload) ==
    signature # <<>> /\ signature # <<"">>

\* GithubClient._verify_github_signature(signature, payload): TRUE when it
\* returns, FALSE when it raises.  signature is <<>> for None, else <<str>>
verify_github_signature(github_webhook_secret, signature, payload) ==
    IF signature = <<>> \/ signature = <<"">> THEN FALSE
    ELSE IF github_webhook_secret = "" THEN TRUE
    ELSE signature[1]
             = "sha256=" \o hmac_sha256_hexdigest(github_webhook_secret, payload)

\* GitlabClient._verify_gitlab_signature(token): the status of the
\* HTTPException it raises, 200 when it returns
verify_gitlab_signature(gitlab_webhook_secret, token) ==
    IF gitlab_webhook_secret = "" THEN 400
    ELSE IF token = <<>> THEN 400
    ELSE IF token[1] # gitlab_webhook_secret THEN 401
    ELSE 200

\* the raw bodies of the model and GithubPullRequestPayload's parse of
\* them: <<>> for a body model_validate_json rejects, else <<payload>>
RawBodies ==
    {"opened", "reopened", "synchronize", "closed", "draft", "invalid", "wip"}

PullRequestPayload(action, draft) ==
    <<[action |-> action,
       pull_request |-> [draft |-> draft, title |-> "fix", number |-> pr_number]]>>

model_validate_json(raw) ==
    CASE raw = "opened" -> PullRequestPayload("opened", FALSE)
      [] raw = "reopened" -> PullRequestPayload("reopened", FALSE)
      [] raw = "synchronize" -> PullRequestPayload("synchronize", FALSE)
      [] raw = "closed" -> PullRequestPayload("closed", FALSE)
      [] raw = "draft" -> PullRequestPayload("opened", TRUE)
      [] raw = "invalid" -> <<>>
      [] raw = "wip" ->
             <<[PullRequestPayload("opened", FALSE)[1] EXCEPT
                    !.pull_request.title = "WIP: fix"]>>

\* the X-Hub-Signature-256 headers a request with this body is sent with:
\* none, empty, the signature under each key, the digest without its prefix
\* and the signature of another body
SignaturesOf(raw) ==
    {<<>>, <<"">>,
     <<"sha256=" \o hmac_sha256_hexdigest("k1", raw)>>,
     <<"sha256=" \o hmac_sha256_hexdigest("k2", raw)>>,
     <<hmac_sha256_hexdigest("k1", raw)>>,
     <<"sha256=" \o hmac_sha256_hexdigest("k1", IF raw = "closed" THEN "opened" ELSE "closed")>>}

\* str() of an Optional[str] header
StrOf(optional) == IF optional = <<>> THEN "None" ELSE optional[1]

\* "a or b" on an Optional[str] and a str
OrElse(optional, default) ==
    IF optional = <<>> \/ optional = <<"">> THEN default ELSE optional[1]

\* review_mode = (ai_mode or "comment").lower(), "comment" unless it is
\* "comment" or "report"
ReviewMode(ai_mode) ==
    LET review_mode == LowerCase(OrElse(ai_mode, "comment"))
    IN  IF review_mode \in {"comment", "report"} THEN review_mode ELSE "comment"

\* notification_url = push_url or settings.notification_webhook_url or ""
NotificationUrl(push_url, notification_webhook_url) ==
    OrElse(push_url, IF notification_webhook_url = "" THEN "" ELSE notification_webhook_url)

\* api_token = settings.github_token or token
ApiToken(github_token, token) ==
    IF github_token # "" THEN github_token ELSE OrElse(token, "")


JSONResponse(status_code, content) ==
    [status_code |-> status_code, content |-> content]

\* the last statement of the handler
ReviewedResponse(reviews, review_mode) ==
    JSONResponse(200, [ok |-> TRUE,
                       reviews_count |-> Len(reviews),
                       mode |-> review_mode,
                       pr_number |-> pr_number])

\* a faulty handler: an exception of publish() is passed over
ResponseAfterPublishOk(pc, reviews, review_mode) ==
    ReviewedResponse(reviews, review_mode)

\* "if reviews: try: await publish_service.publish(...) except Exception:
\* return JSONResponse(..., status_code=500)", then the last statement;
\* pc is where publish() ended
ResponseAfterPublish(pc, reviews, review_mode) ==
    IF pc = "raised"
    THEN JSONResponse(500, [message |-> "Failed to publish reviews"])
    ELSE ReviewedResponse(reviews, review_mode)

\* HTTPException(status_code, detail), as FastAPI answers it
HTTPException(status_code, detail) ==
    [status_code |-> status_code, content |-> [detail |-> detail]]

\* the settings and the requests of the model
HookSettings ==
    [github_webhook_secret : {"", "k1"},
     github_token : {"", "ghp_t"},
     notification_webhook_url : {"", "https://hooks.example/T0"}]

HookRequests ==
    UNION {[x_github_event : {<<>>, <<"pull_request">>, <<"push">>},
            x_hub_signature : SignaturesOf(raw),
            ai_mode : {<<>>, <<"Report">>, <<"full">>},
            push_url : {<<>>, <<"https://hooks.example/T1">>},
            token : {<<>>, <<"t">>},
            raw : {raw}] : raw \in RawBodies}

\* what _get_github_pr_diff gives: the files of the pull request, or
\* GithubApiError (<<>> stands for the error in FetchOutcomes)
FetchedLists ==
    {<<>>, <<FileD>>, <<FileE>>, <<FileA>>, <<FileA, FileD>>, <<FileA, FileB>>,
     <<FileR>>}

\* what one LLM call and the reading of its answer give in the handler runs
HandlerAnswers ==
    {Answer(TRUE, <<>>),
     Answer(FALSE, <<>>),
     Answer(FALSE, <<ReviewDict("a.py", "a.py", "new", 1, 1, "h", "x")>>),
     Answer(FALSE, <<ReviewDict("a.py", "a.py", "new", 1, 1, "h", "x"),
                     ReviewDict("b.py", "o.py", "old", 2, 2, "h", "y\n")>>)}

InitHook ==
    /\ UpsertIdle
    /\ LlmIdle
    /\ SplitIdle
    /\ YamlIdle
    /\ PatchIdle
    /\ AgentIdle
    /\ PubIdle
    /\ h_pc = "received"
    /\ settings \in HookSettings
    /\ http_request \in HookRequests
    /\ fetches = <<>>
    /\ response = <<>>

\* the handler answers: return JSONResponse(...) or raise HTTPException(...)
Respond(r) ==
    /\ response' = <<r>>
    /\ h_pc' = "responded"

\* github_client._verify_github_signature(x_hub_signature, raw); any
\* exception is answered 401
VerifySignature ==
    /\ h_pc = "received"
    /\ IF verify_github_signature(settings.github_webhook_secret,
                                  http_request.x_hub_signature, http_request.raw)
       THEN h_pc' = "verified" /\ response' = response
       ELSE Respond(HTTPException(401, "Invalid signature"))
    /\ UNCHANGED <<settings, http_request, fetches>>
    /\ UNCHANGED <<patchVars, agentVars, pubVars, yamlVars, splitVars, llmVars, upsertVars>>

IsDraftNever(pull_request) == FALSE

\* "if pr.draft:"
IsDraft(pull_request) == pull_request.draft

\* the event, payload, action and draft checks
FilterEvent ==
    /\ h_pc = "verified"
    /\ LET payload == model_validate_json(http_request.raw)
       IN  IF http_request.x_github_event # <<"pull_request">>
           THEN Respond(JSONResponse(200,
                    [ok |-> TRUE,
                     skipped |-> "event " \o StrOf(http_request.x_github_event)]))
           ELSE IF payload = <<>>
           THEN Respond(HTTPException(400, "Invalid pull_request payload"))
           ELSE IF payload[1].action \notin {"opened", "reopened", "synchronize"}
           THEN Respond(JSONResponse(200,
                    [ok |-> TRUE, skipped |-> "action " \o payload[1].action]))
           ELSE IF IsDraft(payload[1].pull_request)
           THEN Respond(JSONResponse(200, [ok |-> TRUE, skipped |-> "draft PR"]))
           ELSE h_pc' = "filtered" /\ response' = response
    /\ UNCHANGED <<settings, http_request, fetches>>
    /\ UNCHANGED <<patchVars, agentVars, pubVars, yamlVars, splitVars, llmVars, upsertVars>>

\* api_token = settings.github_token or token; without one the handler
\* answers 400
CheckToken ==
    /\ h_pc = "filtered"
    /\ IF ApiToken(settings.github_token, http_request.token) = ""
       THEN Respond(HTTPException(400, "GitHub token not configured"))
       ELSE h_pc' = "authorized" /\ response' = response
    /\ UNCHANGED <<settings, http_request, fetches>>
    /\ UNCHANGED <<patchVars, agentVars, pubVars, yamlVars, splitVars, llmVars, upsertVars>>

\* diff_items, pr_obj = await github_client._get_github_pr_diff(...): a
\* GithubApiError is answered 500, an empty list "No file changes to review"
FetchDiff ==
    /\ h_pc = "authorized"
    /\ \/ /\ fetches' = Append(fetches, [ok |-> FALSE, diff_items |-> <<>>])
          /\ Respond(JSONResponse(500,
                 [message |-> "failed to fetch changes from github"]))
          /\ files' = files
       \/ \E fetched \in FetchedLists :
              /\ fetches' = Append(fetches, [ok |-> TRUE, diff_items |-> fetched])
              /\ files' = fetched
              /\ IF fetched = <<>>
                 THEN Respond(JSONResponse(200,
                          [ok |-> TRUE, message |-> "No file changes to review"]))
                 ELSE h_pc' = "fetched" /\ response' = response
    /\ UNCHANGED <<settings, http_request>>
    /\ UNCHANGED <<a_pc, handler, commit_message, query, chunks, chunk_idx,
                   chunk_results, sent, returned>>
    /\ UNCHANGED <<patchVars, pubVars, yamlVars, splitVars, llmVars, upsertVars>>

\* patch_handler = GithubPatchHandler(diff_items); without code changes the
\* handler answers "No code file changes to review", else it goes on to
\* get_extended_diff_content(commit_message=pr.title or "")
CheckCodeChanges ==
    /\ h_pc = "fetched"
    /\ IF ~has_code_changes(files)
       THEN /\ Respond(JSONResponse(200,
                   [ok |-> TRUE, message |-> "No code file changes to review"]))
            /\ UNCHANGED <<a_pc, handler, commit_message>>
       ELSE /\ h_pc' = "reviewing"
            /\ response' = response
            /\ a_pc' = "fetched"
            /\ handler' = "github"
            /\ commit_message' =
                   model_validate_json(http_request.raw)[1].pull_request.title
    /\ UNCHANGED <<settings, http_request, fetches>>
    /\ UNCHANGED <<files, query, chunks, chunk_idx, chunk_results, sent, returned>>
    /\ UNCHANGED <<patchVars, pubVars, yamlVars, splitVars, llmVars, upsertVars>>

\* get_prediction raised: the handler answers 500 "AI review failed"
ReviewFailed ==
    /\ h_pc = "reviewing"
    /\ a_pc = "raised"
    /\ Respond(JSONResponse(500, [message |-> "AI review failed"]))
    /\ UNCHANGED <<settings, http_request, fetches>>
    /\ UNCHANGED <<patchVars, agentVars, pubVars, yamlVars, splitVars, llmVars, upsertVars>>

\* get_prediction returned None: nothing is published and the handler
\* answers with reviews_count 0
NothingToPublish ==
    /\ h_pc = "reviewing"
    /\ a_pc = "returned"
    /\ returned = <<>>
    /\ Respond(ReviewedResponse(<<>>, ReviewMode(http_request.ai_mode)))
    /\ UNCHANGED <<settings, http_request, fetches>>
    /\ UNCHANGED <<patchVars, agentVars, pubVars, yamlVars, splitVars, llmVars, upsertVars>>

\* "if reviews:" the handler calls publish_service.publish(mode=review_mode,
\* reviews=reviews, diff_items=diff_items, callback={'push_url': ...})
CallPublish ==
    /\ h_pc = "reviewing"
    /\ a_pc = "returned"
    /\ returned # <<>>
    /\ h_pc' = "publishing"
    /\ forge' = "github"
    /\ mode' = ReviewMode(http_request.ai_mode)
    /\ pub_reviews' = returned
    /\ diff_items' = files
    /\ callback' = <<[push_url |->
                         NotificationUrl(http_request.push_url,
                                         settings.notification_webhook_url)]>>
    /\ pub_pc' = PublishStart(ReviewMode(http_request.ai_mode))
    /\ UNCHANGED <<review_idx, requests, skipped, notes, notified, run>>
    /\ UNCHANGED <<settings, http_request, fetches, response>>
    /\ UNCHANGED <<patchVars, agentVars, yamlVars, splitVars, llmVars, upsertVars>>

\* publish() returned or raised: the handler answers
RespondAfterPublish ==
    /\ h_pc = "publishing"
    /\ pub_pc \in {"done", "raised"}
    /\ Respond(ResponseAfterPublish(pub_pc, pub_reviews, mode))
    /\ UNCHANGED <<settings, http_request, fetches>>
    /\ UNCHANGED <<patchVars, agentVars, pubVars, yamlVars, splitVars, llmVars, upsertVars>>

NextHook ==
    \/ VerifySignature
    \/ FilterEvent
    \/ CheckToken
    \/ FetchDiff
    \/ CheckCodeChanges
    \/ GetExtendedDiffContent
    \/ GetPredictionBegin
    \/ ProcessSingle(HandlerAnswers)
    \/ ProcessChunk(HandlerAnswers)
    \/ MergeChunkResults
    \/ ReviewFailed
    \/ NothingToPublish
    \/ CallPublish
    \/ GithubSkipComment
    \/ GithubPublishComment
    \/ PublishCommentsEnd
    \/ GithubPublishReport
    \/ GithubNotify
    \/ RespondAfterPublish

SpecHook == InitHook /\ [][NextHook]_vars

-----------------------------------------------------------------------------
(* ai-gen.py: _github_upsert_review_comment and _gitlab_upsert_note, run    *)
(* by concurrent webhook requests for one MR/PR                            *)

\* AI_COMMENT_MARKER of ai-gen.py
AI_GEN_COMMENT_MARKER == "<!-- ai-review:git-mr-ai-reviewer -->"

\* the review text the upsert is called with
ReviewBody(content) ==
    "### AI Review\n\n" \o content \o "\n\n" \o AI_GEN_COMMENT_MARKER

Tasks == 1..MaxTasks

Comment(id, body) == [id |-> id, body |-> body]

\* the comments of the MR/PR before the invocations: a comment of a user
\* and the comment of an earlier review, or none of them
Threads ==
    {<<>>,
     <<Comment(1, "LGTM")>>,
     <<Comment(1, ReviewBody("w"))>>,
     <<Comment(1, "LGTM"), Comment(2, ReviewBody("w"))>>}

\* next((c for c in comments if AI_COMMENT_MARKER in (c.get("body") or "")),
\* None): <<>> for None, else <<id>>
Existing(listed) ==
    LET hits == {i \in 1..Len(listed) : Contains(listed[i].body, AI_GEN_COMMENT_MARKER)}
    IN  IF hits = {} THEN <<>>
        ELSE <<listed[CHOOSE i \in hits : \A j \in hits : i <= j].id>>

InitUpsert ==
    /\ LlmIdle
    /\ SplitIdle
    /\ YamlIdle
    /\ HookIdle
    /\ PatchIdle
    /\ AgentIdle
    /\ PubIdle
    /\ u_pc = [t \in Tasks |-> "start"]
    /\ u_forge \in {"github", "gitlab"}
    /\ u_comments \in Threads
    /\ u_existing = [t \in Tasks |-> <<>>]
    /\ u_body \in [Tasks -> {ReviewBody("x"), ReviewBody("y")}]
    /\ u_requests = <<>>

\* the GET of the comments (notes), raise_for_status() and the search for
\* the marker; the forge answers with the comments or with an error status
UpsertList(t) ==
    /\ u_pc[t] = "start"
    /\ u_requests' = Append(u_requests, [task |-> t, method |-> "GET", id |-> 0])
    /\ \E ok \in BOOLEAN :
          IF ok
          THEN /\ u_existing' = [u_existing EXCEPT ![t] = Existing(u_comments)]
               /\ u_pc' = [u_pc EXCEPT ![t] = "listed"]
          ELSE /\ u_existing' = u_existing
               /\ u_pc' = [u_pc EXCEPT ![t] = "raised"]
    /\ UNCHANGED <<u_forge, u_comments, u_body>>
    /\ UNCHANGED <<patchVars, agentVars, pubVars, hookVars, yamlVars, splitVars, llmVars>>

\* if existing: PATCH (GitHub) or PUT (GitLab) of the comment found, else
\* POST of a new comment; the answer of the forge is not looked at
UpsertWrite(t) ==
    /\ u_pc[t] = "listed"
    /\ IF u_existing[t] # <<>>
       THEN /\ u_requests' =
                   Append(u_requests,
                          [task |-> t,
                           method |-> IF u_forge = "github" THEN "PATCH" ELSE "PUT",
                           id |-> u_existing[t][1]])
            /\ u_comments' =
                   [i \in 1..Len(u_comments) |->
                       IF u_comments[i].id = u_existing[t][1]
                       THEN Comment(u_comments[i].id, u_body[t])
                       ELSE u_comments[i]]
       ELSE /\ u_requests' =
                   Append(u_requests, [task |-> t, method |-> "POST", id |-> 0])
            /\ u_comments' =
                   Append(u_comments, Comment(Len(u_comments) + 1, u_body[t]))
    /\ u_pc' = [u_pc EXCEPT ![t] = "done"]
    /\ UNCHANGED <<u_forge, u_existing, u_body>>
    /\ UNCHANGED <<patchVars, agentVars, pubVars, hookVars, yamlVars, splitVars, llmVars>>

\* the invocations are independent tasks: their requests interleave
NextUpsert ==
    \E t \in Tasks :
        \/ UpsertList(t)
        \/ UpsertWrite(t)

SpecUpsert == InitUpsert /\ [][NextUpsert]_vars

-----------------------------------------------------------------------------
(* Properties of the patch extender *)

IsHeaderItem(i) == patch_items[i].hdr

\* the header item that opens the hunk item i lies in
HeaderOf(i) ==
    CHOOSE h \in 1..i :
        /\ IsHeaderItem(h)
        /\ \A j \in (h + 1)..i : ~IsHeaderItem(j)

\* the number of the hunk item i lies in
HunkOf(i) == Cardinality({j \in 1..i : IsHeaderItem(j)})

\* the reference walk, in closed form: a body line's old number is the
\* header's old_start plus the number of earlier lines of the hunk that are
\* not additions, its new number the header's new_start plus the number of
\* earlier lines of the hunk that are not deletions
RefOld(i) ==
    patch_items[HeaderOf(i)].o +
    Cardinality({j \in (HeaderOf(i) + 1)..(i - 1) :
                    ~StartsWith(patch_items[j].text, "+")})

RefNew(i) ==
    patch_items[HeaderOf(i)].n +
    Cardinality({j \in (HeaderOf(i) + 1)..(i - 1) :
                    ~StartsWith(patch_items[j].text, "-")})

RefHead(i) ==
    IF StartsWith(patch_items[i].text, "-") THEN HeadOld(RefOld(i))
    ELSE IF StartsWith(patch_items[i].text, "+") THEN HeadNew(RefNew(i))
    ELSE HeadBoth(RefOld(i), RefNew(i))

\* the annotated line computed_hunk_line_number gave for item i
AnnotatedLine(i) == hunk_out[HunkOf(i)][i - HeaderOf(i) + 1]

\* C1: every body line of a processed hunk carries the prefix of the
\* reference walk started at the header's old_start and new_start (a
\* deletion (old, ), an addition ( , new), any other line (old, new)),
\* padded with spaces and followed by one space and the line itself.
C1_PrefixMatchesReference ==
    \A i \in 1..Len(patch_items) :
        (HunkOf(i) <= Len(hunk_out) /\ ~IsHeaderItem(i)) =>
            /\ i - HeaderOf(i) + 1 <= Len(hunk_out[HunkOf(i)])
            /\ \E pad \in 0..Len(AnnotatedLine(i)) :
                   AnnotatedLine(i) =
                       RefHead(i) \o Spaces(pad) \o " " \o patch_items[i].text

\* a hunk starting at old line 9 with a deletion, an addition and a context
\* line has been numbered
C1_Witness ==
    /\ p_pc = "done"
    /\ Len(patch_items) = 4
    /\ patch_items[1].o = 9
    /\ patch_items[2].text = "-a"
    /\ patch_items[3].text = "+b"
    /\ patch_items[4].text = " c"
    /\ Len(hunk_out) = 1
    /\ Len(hunk_out[1]) = 4

\* text is a prefix "(..)" padded with spaces
IsLinePrefix(text) ==
    LET c == FindChar(text, ")", 1)
    IN  /\ StartsWith(text, "(")
        /\ c > 0
        /\ SubSeq(text, c + 1, Len(text)) = Spaces(Len(text) - c)

\* stripping the prefix (and the space after it) from annotated gives line
StripsTo(annotated, line) ==
    \E w \in 1..Len(annotated) :
        /\ IsLinePrefix(SubSeq(annotated, 1, w))
        /\ SubSeq(annotated, w + 1, Len(annotated)) = " " \o line

\* C2: the annotated diff has one line per patch line, in order: a '@@'
\* header is a line of its own, unchanged, and any other line gives back
\* the patch line when its prefix is stripped.
C2_AnnotatedDiffLineForLine ==
    p_pc = "done" =>
        LET out == SplitLines(extended_diff)
        IN  /\ Len(out) = Len(patch_items)
            /\ \A i \in 1..Len(patch_items) :
                   IF IsHeaderItem(i)
                   THEN out[i] = patch_items[i].text
                   ELSE StripsTo(out[i], patch_items[i].text)

\* the lines of the patch: the items that are no header, but for the empty
\* piece that follows the newline a patch text ends in
PatchLines ==
    {i \in 1..Len(patch_items) :
        /\ ~IsHeaderItem(i)
        /\ ~(i = Len(patch_items) /\ patch_items[i].text = "")}

\* the new-file line numbers occupied by the '+' and context lines
OccupiedNew ==
    {RefNew(i) : i \in {j \in PatchLines : ~StartsWith(patch_items[j].text, "-")}}

\* the old-file line numbers occupied by the '-' and context lines
OccupiedOld ==
    {RefOld(i) : i \in {j \in PatchLines : ~StartsWith(patch_items[j].text, "+")}}

\* C26: after add_line_number the keys of new_lines_with_number are exactly
\* the new-file line numbers occupied by the patch's '+' and context lines
\* and the keys of old_lines_with_number exactly the old-file line numbers
\* occupied by its '-' and context lines; a patch text ending in a newline
\* adds no key, and no key is below 1, also for a hunk headed '-0,0'.
C26_KeysAreOccupiedLineNumbers ==
    p_pc = "done" =>
        /\ DOMAIN new_lines_with_number = OccupiedNew
        /\ DOMAIN old_lines_with_number = OccupiedOld
        /\ \A k \in DOMAIN new_lines_with_number \cup
                    DOMAIN old_lines_with_number : k >= 1

-----------------------------------------------------------------------------
(* Properties of the token budgeter and of get_prediction *)

\* C3: every text sent to the LLM has at most MaxTokens tokens, whichever
\* patch handler produced the diff text.
C3_SentWithinBudget ==
    \A i \in 1..Len(sent) : count_tokens(sent[i]) <= MaxTokens

\* the commit-message header the patch handler put before the files
CommitHeader ==
    IF handler = "gitlab" THEN Strip("commit message: " \o commit_message)
    ELSE IF commit_message # "" THEN "Commit Message: " \o commit_message
    ELSE ""

\* C4: when a diff is split, every chunk of split_diff_by_files begins with
\* the commit-message header of the diff.
C4_EveryChunkCarriesHeader ==
    a_pc = "chunks" =>
        \A i \in 1..Len(chunks) : StartsWith(chunks[i], CommitHeader)

\* the identity key of a review
IdentityKey(review) ==
    <<review.new_path, review.start_line, review.end_line, review.type>>

\* the reviews of the chunk results, by chunk_index and then by position
RECURSIVE InputReviews(_)
InputReviews(results) ==
    IF Len(results) = 0 THEN <<>>
    ELSE LET last == results[Len(results)]
         IN  InputReviews(SubSeq(results, 1, Len(results) - 1))
             \o (IF last.failed THEN <<>> ELSE last.reviews)

\* get_prediction has returned the merged reviews of a diff it split
MergedReturned == a_pc = "returned" /\ Len(chunks) > 0

Occurrences(key) ==
    SelectSeq(InputReviews(chunk_results), LAMBDA r : IdentityKey(r) = key)

\* the content kept for a key: each later occurrence's content is appended
\* after a '---' line unless the content so far contains it; with
\* stripped, the combined text is stripped of white space at both ends
RECURSIVE KeptContent(_, _, _)
KeptContent(content, later, stripped) ==
    IF Len(later) = 0 THEN content
    ELSE LET combined == content \o "\n---\n" \o Head(later).issue_content
             next == IF Contains(content, Head(later).issue_content) THEN content
                     ELSE IF stripped THEN Strip(combined)
                     ELSE combined
         IN  KeptContent(next, Tail(later), stripped)

\* for every key of the chunk results the merged list holds the first
\* occurrence, unchanged but for the issue content kept for the key
FirstOccurrenceKept(stripped) ==
    MergedReturned =>
        \A k \in 1..Len(InputReviews(chunk_results)) :
            LET occ == Occurrences(IdentityKey(InputReviews(chunk_results)[k]))
            IN  \E j \in 1..Len(returned) :
                    returned[j] =
                        [occ[1] EXCEPT !.issue_content =
                            KeptContent(occ[1].issue_content, Tail(occ), stripped)]

\* C6 as stated: the first occurrence of a key is kept, its other fields
\* unchanged, and the issue content of each later occurrence is appended
\* after a '---' separator line unless the kept content contains it.
C6_FirstKeptLaterAppended == FirstOccurrenceKept(FALSE)

\* C6 amended: as C6, and the combined text is stripped of leading and
\* trailing white space each time a later occurrence is appended.
C6_FirstKeptLaterAppendedStripped == FirstOccurrenceKept(TRUE)

\* a key with three occurrences: the second was appended to the first, the
\* third was already contained
C6_Witness ==
    /\ MergedReturned
    /\ Len(chunk_results) = 2
    /\ ~chunk_results[1].failed
    /\ ~chunk_results[2].failed
    /\ Len(chunk_results[1].reviews) = 2
    /\ Len(chunk_results[2].reviews) = 1
    /\ chunk_results[1].reviews[1].issue_content = "xy"
    /\ chunk_results[1].reviews[2].issue_content = "y\n"
    /\ chunk_results[2].reviews[1].issue_content = "x"
    /\ Len(returned) = 1
    /\ returned[1].issue_content = "xy\n---\ny"

\* C7: the reviews get_prediction returns, from one LLM call or from
\* several chunks, hold no two items of the same coordinate.
C7_ReturnedKeysUnique ==
    a_pc = "returned" =>
        \A i, j \in 1..Len(returned) :
            i # j => IdentityKey(returned[i]) # IdentityKey(returned[j])

-----------------------------------------------------------------------------
(* Properties of the comment publishers *)

\* the review a comment request was made for
ReviewOf(request) == pub_reviews[request.review_index]

\* C8: every inline comment request of comment mode carries the review's
\* end_line as its line; on GitHub its side is RIGHT exactly when the
\* review's type is new and LEFT exactly when it is old, and on GitLab the
\* line is the new line exactly when the type is new and the old line
\* exactly when it is old.
C8_LineAndSideFollowReview ==
    \A k \in 1..Len(requests) :
        LET review == ReviewOf(requests[k])
            data == requests[k].data
        IN  IF forge = "github"
            THEN /\ data.line = review.end_line
                 /\ data.side = "RIGHT" <=> review.type = "new"
                 /\ data.side = "LEFT" <=> review.type = "old"
            ELSE /\ data.new_line = <<review.end_line>> <=> review.type = "new"
                 /\ data.old_line = <<review.end_line>> <=> review.type = "old"
                 /\ data.new_line = <<>> <=> review.type = "old"
                 /\ data.old_line = <<>> <=> review.type = "new"

\* the GitHub publisher has posted a comment of a review of type old and one
\* of a review of type new whose end_line is not its start_line
C8_Witness ==
    /\ pub_pc = "published"
    /\ forge = "github"
    /\ \E k \in 1..Len(requests) :
           requests[k].ok /\ ReviewOf(requests[k]).type = "old"
    /\ \E k \in 1..Len(requests) :
           /\ requests[k].ok
           /\ ReviewOf(requests[k]).type = "new"
           /\ ReviewOf(requests[k]).end_line # ReviewOf(requests[k]).start_line

\* C9: on GitHub the path of every inline comment request is the review's
\* new_path when its type is new and its old_path when its type is old.
C9_PathFollowsType ==
    forge = "github" =>
        \A k \in 1..Len(requests) :
            requests[k].data.path =
                IF ReviewOf(requests[k]).type = "new"
                THEN ReviewOf(requests[k]).new_path
                ELSE ReviewOf(requests[k]).old_path

\* C10: once publish() has left the comment loop, by its end or by an
\* exception, every review after one whose post failed has had its post
\* attempted (or was skipped by GitHub for want of a diff item), and the
\* posts were attempted in list order; on both forges.
C10_FailureDoesNotStopLaterPosts ==
    pub_pc \in {"published", "raised"} =>
        /\ \A k, m \in 1..Len(requests) :
               k < m => requests[k].review_index < requests[m].review_index
        /\ \A k \in 1..Len(requests) :
               ~requests[k].ok =>
                   \A j \in (requests[k].review_index + 1)..Len(pub_reviews) :
                       \/ j \in skipped
                       \/ \E m \in 1..Len(requests) :
                              requests[m].review_index = j

-----------------------------------------------------------------------------
(* Properties of the notification *)

\* C11: a failure of the notification webhook (a status other than 200, or
\* an exception of the post) never changes the outcome of the run: publish()
\* returns normally, on both forges, and the GitHub handler's response is
\* the one it gives when the notification succeeds.
C11_NotificationFailureIsSwallowed ==
    \A k \in 1..Len(notified) :
        (notified[k].run = run /\ notified[k].outcome # "sent") =>
            /\ pub_pc = "done"
            /\ forge = "github" =>
                   ResponseAfterPublish(pub_pc, pub_reviews, mode) =
                       ReviewedResponse(pub_reviews, mode)

\* the post to the webhook raised after the GitHub report was posted
C11_Witness ==
    /\ forge = "github"
    /\ mode = "report"
    /\ Len(notes) = 1 /\ notes[1].ok
    /\ Len(notified) = 1 /\ notified[1].outcome = "exception"

-----------------------------------------------------------------------------
(* Properties of the posted bodies *)

\* how many times the marker occurs in a body
MarkerCount(body) ==
    Cardinality({i \in 1..(Len(body) - Len(AI_COMMENT_MARKER) + 1) :
                     SubSeq(body, i, i + Len(AI_COMMENT_MARKER) - 1)
                         = AI_COMMENT_MARKER})

\* C18: every body the publisher posts, of an inline comment and of a
\* report comment, on either forge, contains the marker string exactly once.
C18_BodyHasMarkerOnce ==
    /\ \A k \in 1..Len(requests) : MarkerCount(requests[k].body) = 1
    /\ \A k \in 1..Len(notes) : MarkerCount(notes[k].body) = 1

\* the bot's comments on the pull request or merge request once run r of
\* the handler is over: every post that succeeded made one
CommentsAfter(r) ==
    [inline |-> SelectSeq(requests, LAMBDA q : q.ok /\ q.run <= r),
     general |-> SelectSeq(notes, LAMBDA q : q.ok /\ q.run <= r)]

\* C17: running the pipeline twice on the same webhook body leaves the same
\* bot comments as running it once (the second run updates the comment that
\* carries the marker instead of creating another), in comment mode and in
\* report mode.
C17_SecondRunLeavesSameComments ==
    (run = 2 /\ pub_pc = "done") => CommentsAfter(2) = CommentsAfter(1)

-----------------------------------------------------------------------------
(* Properties of the GitHub webhook handler *)

\* the handler has made an outbound call: a forge fetch, an LLM call, a
\* comment post or a notification
Outbound ==
    \/ fetches # <<>>
    \/ sent # <<>>
    \/ requests # <<>>
    \/ notes # <<>>
    \/ notified # <<>>

\* the request passes _verify_github_signature
Verified ==
    verify_github_signature(settings.github_webhook_secret,
                            http_request.x_hub_signature, http_request.raw)

\* the request is a pull_request event whose action is opened, reopened or
\* synchronize and whose pull request is not a draft
ToBeReviewed ==
    LET payload == model_validate_json(http_request.raw)
    IN  /\ http_request.x_github_event = <<"pull_request">>
        /\ payload # <<>>
        /\ payload[1].action \in {"opened", "reopened", "synchronize"}
        /\ ~payload[1].pull_request.draft

\* the request is of another event, or its payload is read and has another
\* action or a draft pull request
ToBeSkipped ==
    LET payload == model_validate_json(http_request.raw)
    IN  \/ http_request.x_github_event # <<"pull_request">>
        \/ /\ payload # <<>>
           /\ \/ payload[1].action \notin {"opened", "reopened", "synchronize"}
              \/ payload[1].pull_request.draft

C13_ProceedsIffSignatureMatches ==
    (h_pc # "received" /\ settings.github_webhook_secret # "") =>
        LET expected == "sha256=" \o hmac_sha256_hexdigest(
                                         settings.github_webhook_secret,
                                         http_request.raw)
            rejected == /\ h_pc = "responded"
                        /\ response[1].status_code = 401
        IN  IF http_request.x_hub_signature = <<expected>>
            THEN ~rejected
            ELSE rejected /\ fetches = <<>> /\ sent = <<>>

\* a request signed under another key has been answered 401, the secret
\* being configured
C13_Witness ==
    /\ settings.github_webhook_secret = "k1"
    /\ http_request.x_github_event = <<"pull_request">>
    /\ http_request.raw = "opened"
    /\ http_request.x_hub_signature =
           <<"sha256=" \o hmac_sha256_hexdigest("k2", "opened")>>
    /\ h_pc = "responded"
    /\ response[1].status_code = 401

\* C14: with an empty configured webhook secret verification fails closed:
\* every request is rejected and none goes on to fetch or review, whatever
\* signature or token header it carries, for the GitHub client and for the
\* GitLab client.
C14_EmptySecretFailsClosed ==
    /\ (h_pc # "received" /\ settings.github_webhook_secret = "") =>
           /\ h_pc = "responded"
           /\ response[1].status_code \in {400, 401}
           /\ ~Outbound
    /\ \A token \in {<<>>, <<"">>, <<"k1">>} :
           verify_gitlab_signature("", token) # 200

\* C15: an answer whose YAML block does not parse or does not validate (a
\* failed answer: _process_single_chunk raises result.error) is never fatal:
\* get_prediction returns normally, the chunk of that answer contributes no
\* finding while the findings of the other chunks are kept, and the handler
\* does not answer with an error; whether the diff is reviewed in one
\* request or in chunks.
C15_FailedAnswerIsNotFatal ==
    /\ a_pc # "raised"
    /\ (a_pc = "returned" /\ chunks # <<>>) =>
           returned = merge_reviews(SelectSeq(chunk_results,
                                              LAMBDA r : ~r.failed))
    /\ (h_pc = "responded" /\ sent # <<>>) =>
           response[1] # JSONResponse(500, [message |-> "AI review failed"])

\* a file the normalizer's rules drop: its extension is in the exclude set,
\* or it is flagged too_large, collapsed or generated
Dropped(item) ==
    \/ FileExt(item.new_path) # <<>>
       /\ FileExt(item.new_path)[1] \in EXCLUDE_EXTENSIONS
    \/ item.too_large
    \/ item.collapsed
    \/ item.generated_file

\* C19: no file the normalizer's rules drop has its patch in a diff text the
\* GitHub handler sends to the LLM, whatever the list of fetched files.
C19_DroppedFilesNotSent ==
    \A k \in 1..Len(sent) :
        \A i \in 1..Len(files) :
            (Dropped(files[i]) /\ files[i].diff # "") =>
                ~Contains(sent[k],
                          "+++ b/" \o files[i].new_path \o "\n" \o files[i].diff)

-----------------------------------------------------------------------------
(* Properties of the YAML extraction                                       *)

\* the first yaml.safe_load of the extracted block raised a YAMLError
FirstParseFailed ==
    /\ y_pc = "done"
    /\ yaml_result # <<>>
    /\ safe_load(yaml_result[1].content).kind = "YAMLError"

\* C16: when the first parse of the extracted block fails and its review
\* items start with '- newPath:' or '-newPath:', the repair pass runs, the
\* repaired text parses, and the result holds the review items with
\* fix_applied true and no error
C16_RepairedBlockParses ==
    FirstParseFailed =>
        /\ yaml_result[1].error = <<>>
        /\ yaml_result[1].fix_applied = TRUE
        /\ yaml_result[1].parsed # <<>>
        /\ yaml_result[1].parsed[1].reviews # <<>>

-----------------------------------------------------------------------------
(* Properties of the order of the steps                                    *)

\* a file whose patch get_extended_diff_content puts into the diff text
Reviewed(item) ==
    /\ ~item.deleted_file
    /\ item.diff # ""
    /\ ~item.too_large
    /\ ~item.collapsed

\* each step has started only after the one before it returned normally:
\* the extension after a successful fetch, the chunking and the LLM calls
\* after the extension, publish after get_prediction returned, the
\* notification after the posting of the comments or of the report
StepOrder ==
    /\ a_pc # "idle" =>
           /\ Len(fetches) = 1
           /\ fetches[1].ok
           /\ files = fetches[1].diff_items
    /\ a_pc \in {"single", "chunks", "returned", "raised"} =>
           query = GithubExtendedDiffContent(files, commit_message)
    /\ sent # <<>> => a_pc \in {"single", "chunks", "returned", "raised"}
    /\ pub_pc # "idle" =>
           /\ a_pc = "returned"
           /\ pub_reviews = returned
    /\ notified # <<>> =>
           /\ pub_pc \in {"published", "done"}
           /\ mode = "comment" => review_idx > Len(pub_reviews)
           /\ mode = "report" => (Len(notes) = 1 /\ notes[1].ok)

\* the chunks are sent one at a time in ascending chunk_index, each result
\* is recorded before the next chunk is sent, and merge_reviews gets the
\* results in chunk_index order
ChunkOrder ==
    /\ a_pc = "chunks" =>
           /\ Len(sent) = chunk_idx - 1
           /\ Len(chunk_results) = Len(sent)
    /\ chunks # <<>> =>
           /\ \A k \in 1..Len(sent) : sent[k] = chunks[k]
           /\ \A k \in 1..Len(chunk_results) :
                  chunk_results[k].chunk_index = k - 1
           /\ a_pc = "returned" =>
                  /\ Len(chunk_results) = Len(chunks)
                  /\ returned = merge_reviews(chunk_results)

\* the extension step has annotated every reviewed patch: the diff text
\* holds the patch with its line numbers, as add_line_number writes it
ExtendAnnotates ==
    a_pc \in {"extended", "single", "chunks", "returned", "raised"} =>
        \A i \in 1..Len(files) :
            Reviewed(files[i]) =>
                Contains(query, add_line_number(files[i].diff))

\* C20: within one invocation the steps happen in the order fetch, extend
\* (the line-number annotation of every reviewed patch), chunking, review,
\* publish, notify, each starting only after the previous one finished
\* without error; the chunks are reviewed one at a time in ascending
\* chunk_index and their results merged in chunk_index order
C20_StepsInOrder ==
    /\ StepOrder
    /\ ChunkOrder
    /\ ExtendAnnotates

-----------------------------------------------------------------------------
(* Properties of split_by_tokens                                           *)

\* split_by_tokens has returned for a token sequence longer than the limit
SplitReturned ==
    /\ t_pc = "done"
    /\ Len(encode(t_text)) > t_limit

\* the loop gives what the function split_by_tokens of the chunking gives
SplitAgrees ==
    (t_pc = "done" /\ t_limit > ChunkOverlap) =>
        t_chunks = split_by_tokens(t_text, t_limit)

\* C21: for a token sequence longer than the limit, every window returned
\* has at most limit tokens, every window after the first starts exactly
\* chunk_overlap tokens before the end of the one before it, and every token
\* of the input lies in at least one window
C21_WindowsOverlapAndCover ==
    SplitReturned =>
        /\ Len(t_windows) = Len(t_chunks)
        /\ \A k \in 1..Len(t_chunks) :
               /\ t_chunks[k] = decode(SubSeq(encode(t_text),
                                              t_windows[k][1] + 1, t_windows[k][2]))
               /\ Len(encode(t_chunks[k])) <= t_limit
        /\ \A k \in 2..Len(t_windows) :
               t_windows[k][1] = t_windows[k - 1][2] - ChunkOverlap
        /\ \A i \in 1..Len(encode(t_text)) :
               \E k \in 1..Len(t_windows) :
                   t_windows[k][1] < i /\ i <= t_windows[k][2]

\* a text is split into three windows or more
C21_Witness ==
    /\ SplitReturned
    /\ Len(t_chunks) >= 3

\* C28: split_by_tokens terminates for every text and every positive limit,
\* also a limit that is not larger than chunk_overlap
C28_SplitByTokensTerminates == <>(t_pc = "done")

-----------------------------------------------------------------------------
(* Properties of the LLM calls                                             *)

\* the requests made for the chunk of index i
CallsOf(i) == {j \in 1..Len(llm_calls) : llm_calls[j].chunk_index = i}

\* C22: when a chat-completion call fails with a network error, a timeout
\* or a 5xx, the call is made again, up to 3 attempts, and only then does
\* the chunk fail
C22_FailedCallIsRetried ==
    \A k \in 1..Len(llm_results) :
        llm_results[k].failed =>
            Cardinality(CallsOf(llm_results[k].chunk_index)) = 3

-----------------------------------------------------------------------------
(* Properties of the handler's answers to failures                         *)

\* the handler has answered a request that passed the verification
AnsweredAfterVerified ==
    /\ h_pc = "responded"
    /\ Verified

\* the body of a pull_request event does not validate
InvalidPayload ==
    /\ http_request.x_github_event = <<"pull_request">>
    /\ model_validate_json(http_request.raw) = <<>>

\* no forge token, neither in the settings nor in the request
TokenMissing ==
    /\ ToBeReviewed
    /\ ApiToken(settings.github_token, http_request.token) = ""

\* the fetch, get_prediction or publish() raised
StepRaised ==
    \/ \E k \in 1..Len(fetches) : ~fetches[k].ok
    \/ a_pc = "raised"
    \/ pub_pc = "raised"

\* a 5xx answer with a structured error body
ErrorEnvelope5xx ==
    /\ response[1].status_code \in 500..599
    /\ "message" \in DOMAIN response[1].content

-----------------------------------------------------------------------------
(* Properties of the diff snippet of the report                            *)

\* the lines of a patch whose line number lies in the target range, the
\* numbers counted from the header of the hunk each line is in; a line with
\* no number on the side asked for has the number of the next line that has
RECURSIVE SnippetLines(_, _, _, _, _)
SnippetLines(st, diff_lines, review_type, target_start, target_end) ==
    IF Len(diff_lines) = 0 THEN <<>>
    ELSE LET line == Head(diff_lines)
             line_num == IF review_type = "new" THEN st.new ELSE st.old
             next == IF StartsWith(line, "+") THEN [st EXCEPT !.new = @ + 1]
                     ELSE IF StartsWith(line, "-") THEN [st EXCEPT !.old = @ + 1]
                     ELSE [old |-> st.old + 1, new |-> st.new + 1]
         IN  IF StartsWith(line, "@@")
             THEN SnippetLines(DiffCodeStart(<<line>>), Tail(diff_lines),
                               review_type, target_start, target_end)
             ELSE (IF target_start <= line_num /\ line_num <= target_end
                   THEN <<line>> ELSE <<>>)
                  \o SnippetLines(next, Tail(diff_lines), review_type,
                                  target_start, target_end)

\* the snippet the report shows for a review, as the claim describes it
SnippetOf(review) ==
    LET found == FindByNewPath(diff_items, 1, review.new_path)
    IN  Join(SnippetLines([old |-> 0, new |-> 0],
                          SplitLines(diff_items[found].diff), review.type,
                          review.start_line - 3, review.end_line + 3), "\n")

\* C24: for a patch with any number of hunks, the snippet _get_diff_code
\* gives for a review is exactly the patch lines whose line number (of the
\* new file for type new, of the old file for type old, counted from the
\* header of each hunk) lies in [start_line - 3, end_line + 3], in patch
\* order
C24_SnippetIsTheLinesInRange ==
    \A n \in 1..Len(notes) :
        \A k \in 1..Len(pub_reviews) :
            Contains(notes[n].body,
                     fence \o "diff\n" \o SnippetOf(pub_reviews[k])
                     \o "\n" \o fence)

-----------------------------------------------------------------------------
(* Properties of the draft filter                                          *)

\* the pull request has its draft flag set, or its title starts with 'wip'
\* or 'draft' in any letter case
DraftOrWip ==
    LET payload == model_validate_json(http_request.raw)
    IN  /\ http_request.x_github_event = <<"pull_request">>
        /\ payload # <<>>
        /\ \/ payload[1].pull_request.draft
           \/ StartsWith(LowerCase(payload[1].pull_request.title), "wip")
           \/ StartsWith(LowerCase(payload[1].pull_request.title), "draft")

\* C25: a pull request whose draft flag is true, or whose title starts with
\* 'wip' or 'draft' in any letter case, is skipped by the webhook handler:
\* no forge fetch and no LLM call is made, and a request that passes the
\* verification is answered ok/skipped
C25_DraftOrWipIsSkipped ==
    DraftOrWip =>
        /\ fetches = <<>>
        /\ sent = <<>>
        /\ (h_pc = "responded" /\ Verified) =>
               /\ response[1].status_code = 200
               /\ "skipped" \in DOMAIN response[1].content

-----------------------------------------------------------------------------
(* Properties of split_diff_by_files                                       *)

\* the '## new_path:' file segments of the diff text, in order: a segment
\* runs from a '## new_path:' line to the line before the next one
InputSegments ==
    LET lines   == SplitLines(query)
        markers == {i \in 1..Len(lines) : StartsWith(lines[i], "## new_path:")}
        nth(k)  == CHOOSE i \in markers :
                       Cardinality({j \in markers : j < i}) = k - 1
        last(i) == IF \E j \in markers : j > i
                   THEN (CHOOSE j \in markers :
                             j > i /\ \A m \in markers : m > i => j <= m) - 1
                   ELSE Len(lines)
    IN  [k \in 1..Cardinality(markers) |->
            Join(SubSeq(lines, nth(k), last(nth(k))), "\n")]

\* the segments that do not alone exceed the limit
SmallSegments ==
    {k \in 1..Len(InputSegments) : count_tokens(InputSegments[k]) <= MaxTokens}

\* the chunks that hold the segment whole
ChunksHolding(k) ==
    {c \in 1..Len(chunks) : Contains(chunks[c], InputSegments[k])}

\* how many times sub occurs in s
CountSub(s, sub) ==
    Cardinality({i \in 1..(Len(s) - Len(sub) + 1) :
                    SubSeq(s, i, i + Len(sub) - 1) = sub})

\* the diff text was split, and it lists no path twice
SplitByFiles ==
    /\ chunks # <<>>
    /\ \A i, j \in 1..Len(files) :
           files[i].new_path = files[j].new_path => i = j

-----------------------------------------------------------------------------
(* Properties of the concurrent upserts                                    *)

\* the comments of the MR/PR that contain the marker
MarkerComments ==
    {i \in 1..Len(u_comments) : Contains(u_comments[i].body, AI_GEN_COMMENT_MARKER)}

UpsertsEnded ==
    /\ u_pc # <<>>
    /\ \A t \in Tasks : u_pc[t] \in {"done", "raised"}

\* C29: when the invocations of the marker-based upsert for one MR/PR have
\* ended, however their list and create/update requests interleaved, the
\* MR/PR has at most one comment that contains the marker.
C29_AtMostOneMarkerComment ==
    UpsertsEnded => Cardinality(MarkerComments) <= 1

-----------------------------------------------------------------------------
(* Properties of the diff text of the GitHub handler                       *)

\* text holds the section of a fetched file: its '+++ b/' line followed by
\* its patch
HasFileSection(text) ==
    \E i \in 1..Len(files) :
        /\ files[i].diff # ""
        /\ Contains(text, "+++ b/" \o files[i].new_path \o "\n" \o files[i].diff)

\* C30: the GitHub handler issues an LLM call only with a diff text that
\* contains the patch of at least one file: whenever has_code_changes() is
\* true for the fetched files, the text get_extended_diff_content gives
\* includes at least one file section, and so does every text sent to the
\* LLM.
C30_LlmCallHasFileSection ==
    (h_pc \notin {"idle", "received"} /\ handler = "github") =>
        /\ (has_code_changes(files) /\ a_pc # "fetched") => HasFileSection(query)
        /\ \A k \in 1..Len(sent) : HasFileSection(sent[k])

====
